---- MODULE Spec2Model ----
(***************************************************************************)
(* A model of celengine/curveplot.cpp: the CurvePlot sample store, the     *)
(* view-frustum sphere test and the buffered vertex emitter                *)
(* (HighPrec_VertexBuffer).                                                *)
(*                                                                         *)
(* Numbers.  The code computes in double precision.  The model draws       *)
(* times, coordinates and velocities from small sets of integers, on which *)
(* every sum, difference and product of the code is exact.  Two values     *)
(* that integers cannot hold are encoded exactly:                          *)
(*   - a norm (a square root) is kept as its square, which orders          *)
(*     non-negative numbers the same way (boundingRadius holds the square  *)
(*     of extents.norm());                                                 *)
(*   - a unit plane normal with rational coordinates is kept as an integer *)
(*     vector and its integer length (normalLength).                       *)
(* NaN is a time value of its own: every comparison with it is false.      *)
(***************************************************************************)
EXTENDS Integers, Sequences, FiniteSets, TLC

VARIABLES
    m_samples,  \* CurvePlot::m_samples, the deque of samples, front first
    call,       \* the last operation on the store: its name, its argument,
                \* and the store as it was before the call
    viewFrustum,\* a HighPrec_Frustum: nearZ, farZ and the four plane normals
    culled,     \* the last cullSphere call: centre, radius and result
    vbuf,       \* the process-wide HighPrec_VertexBuffer
    glDraws,    \* the glDrawArrays calls issued so far, oldest first
    strip,      \* the last emitter call and the strip being emitted
    rendered,   \* the last render call: its arguments and what it did
    mark        \* the last render call of a reference mark (axisarrow.cpp)

storeVars == <<m_samples, call>>
frustumVars == <<viewFrustum, culled>>
emitterVars == <<vbuf, glDraws, strip>>
renderVars == <<rendered>>
markVars == <<mark>>
vars == <<storeVars, frustumVars, emitterVars, renderVars, markVars>>

(***************************************************************************)
(* Bounds of the model.                                                    *)
(***************************************************************************)
MaxTime == 2        \* sample times and cutoffs are 0..MaxTime, or NaN
MaxCoord == 3       \* sphere centres have coordinates in -MaxCoord..MaxCoord
MaxRadius == 2      \* sphere radii are 0..MaxRadius
capacity == 4       \* HighPrec_VertexBuffer::capacity, 4096 in the code

(***************************************************************************)
(* Doubles as far as the store compares them.                              *)
(***************************************************************************)
NaN == MaxTime + 1
Times == 0..MaxTime
TimeValues == Times \cup {NaN}

\* a < b and a > b on doubles: false whenever an operand is NaN
Less(a, b) == a # NaN /\ b # NaN /\ a < b
Greater(a, b) == Less(b, a)

(***************************************************************************)
(* Vectors (Eigen::Vector3d, Eigen::Vector4d) are tuples of integers.      *)
(***************************************************************************)
Abs(x) == IF x < 0 THEN -x ELSE x

VAdd(a, b) == [i \in DOMAIN a |-> a[i] + b[i]]
VSub(a, b) == [i \in DOMAIN a |-> a[i] - b[i]]
VScale(k, a) == [i \in DOMAIN a |-> k * a[i]]

\* a.dot(b), for vectors of three or of four coordinates
Dot(a, b) ==
    a[1] * b[1] + a[2] * b[2] + a[3] * b[3] + (IF Len(a) = 4 THEN a[4] * b[4] ELSE 0)

\* the square of v.norm()
NormSq(v) == Dot(v, v)

zeroExtend(v) == <<v[1], v[2], v[3], 0>>

(***************************************************************************)
(* cubicHermiteCoefficients: the four columns of the coefficient matrix,   *)
(* so that the curve is col(0) + col(1) t + col(2) t^2 + col(3) t^3.       *)
(***************************************************************************)
cubicHermiteCoefficients(p0, p1, v0, v1) ==
    << p0,
       v0,
       VSub(VScale(3, VSub(p1, p0)), VAdd(VScale(2, v0), v1)),
       VAdd(VScale(2, VSub(p0, p1)), VAdd(v1, v0)) >>

\* Extents without cwiseAbs(): coefficients of opposite sign cancel
ExtentsNoAbs(coeff) ==
    [row \in 1..4 |-> coeff[2][row] + coeff[3][row] + coeff[4][row]]

\* coeff.cwiseAbs() * Vector4d(0, 1, 1, 1): per row, the sum of the absolute
\* values of the linear, quadratic and cubic coefficients
Extents(coeff) ==
    [row \in 1..4 |-> Abs(coeff[2][row]) + Abs(coeff[3][row]) + Abs(coeff[4][row])]

\* The bounding radius addSample computes for the segment from sample a to
\* sample b (a earlier than b): extents.norm(), kept as its square.
SegmentBoundingRadius(a, b) ==
    LET dt == b.t - a.t
        coeff == cubicHermiteCoefficients(zeroExtend(a.position),
                                          zeroExtend(b.position),
                                          zeroExtend(VScale(dt, a.velocity)),
                                          zeroExtend(VScale(dt, b.velocity)))
    IN  NormSq(Extents(coeff))

\* no call yet
NoCall == [op |-> "none"]

(***************************************************************************)
(* The sample store.                                                       *)
(***************************************************************************)
Positions == { <<0, 0, -2>>, <<2, -1, -3>> }
Velocities == { <<0, 0, 0>>, <<1, -2, 0>> }
\* what the caller left in the boundingRadius field of a sample it adds
CallerRadii == { 0 }

Samples ==
    [t : TimeValues, position : Positions, velocity : Velocities,
     boundingRadius : CallerRadii]

PushBack(s, x) == Append(s, x)
PushFront(s, x) == <<x>> \o s
PopFront(s) == Tail(s)
PopBack(s) == SubSeq(s, 1, Len(s) - 1)

\* addSample, lines 596-610: where the sample goes
AddToBack(samples, sample) ==
    samples = <<>> \/ Greater(sample.t, samples[Len(samples)].t)
AddToFront(samples, sample) ==
    ~AddToBack(samples, sample) /\ Less(sample.t, samples[1].t)

\* addSample, lines 621-632: the sample pushed at the back, and the radius of
\* the segment that ends at it stored in it
PushBackWithRadius(samples, sample) ==
    LET pushed == PushBack(samples, sample)
        n == Len(pushed)
    IN  IF n > 1
        THEN [pushed EXCEPT ![n].boundingRadius =
                 SegmentBoundingRadius(pushed[n - 1], sample)]
        ELSE pushed

\* the front push that stores the new radius in the new sample (index 0)
\* instead of the sample after it (index 1)
PushFrontRadiusInNew(samples, sample) ==
    LET pushed == PushFront(samples, sample)
    IN  IF Len(pushed) > 1
        THEN [pushed EXCEPT ![1].boundingRadius =
                 SegmentBoundingRadius(sample, pushed[2])]
        ELSE pushed

\* addSample, lines 633-644: the sample pushed at the front, and the radius of
\* the segment that starts at it stored in the sample after it (m_samples[1])
PushFrontWithRadius(samples, sample) ==
    LET pushed == PushFront(samples, sample)
    IN  IF Len(pushed) > 1
        THEN [pushed EXCEPT ![2].boundingRadius =
                 SegmentBoundingRadius(sample, pushed[2])]
        ELSE pushed

\* addSample that appends a sample whose time is within the current range
addSampleNoDiscard(samples, sample) ==
    IF AddToBack(samples, sample) THEN PushBackWithRadius(samples, sample)
    ELSE IF AddToFront(samples, sample) THEN PushFrontWithRadius(samples, sample)
    ELSE PushBackWithRadius(samples, sample)

\* addSample that takes a time equal to the last one for a later time
\* (>= for >)
addSampleNotStrict(samples, sample) ==
    IF AddToBack(samples, sample) \/ sample.t = samples[Len(samples)].t
    THEN PushBackWithRadius(samples, sample)
    ELSE IF AddToFront(samples, sample) THEN PushFrontWithRadius(samples, sample)
    ELSE samples

\* addSample that pushes at the wrong end
addSampleSwapped(samples, sample) ==
    IF AddToBack(samples, sample) THEN PushFrontWithRadius(samples, sample)
    ELSE IF AddToFront(samples, sample) THEN PushBackWithRadius(samples, sample)
    ELSE samples

\* CurvePlot::addSample: the store after addSample(sample)
addSample(samples, sample) ==
    IF AddToBack(samples, sample) THEN PushBackWithRadius(samples, sample)
    ELSE IF AddToFront(samples, sample) THEN PushFrontWithRadius(samples, sample)
    ELSE samples    \* within the range of the current samples: discarded

\* removeSamplesBefore with "if" for "while": at most one sample is popped
removeSamplesBeforeOnce(samples, t) ==
    IF samples # <<>> /\ Less(samples[1].t, t)
    THEN PopFront(samples)
    ELSE samples

\* CurvePlot::removeSamplesBefore: pop the front while its time is < t
RECURSIVE removeSamplesBefore(_, _)
removeSamplesBefore(samples, t) ==
    IF samples # <<>> /\ Less(samples[1].t, t)
    THEN removeSamplesBefore(PopFront(samples), t)
    ELSE samples

\* removeSamplesAfter with ">=" for ">": a sample at the cutoff goes too
removeSamplesAfterInclusive(samples, t) ==
    SelectSeq(samples, LAMBDA s : Less(s.t, t))

\* CurvePlot::removeSamplesAfter: pop the back while its time is > t
RECURSIVE removeSamplesAfter(_, _)
removeSamplesAfter(samples, t) ==
    IF samples # <<>> /\ Greater(samples[Len(samples)].t, t)
    THEN removeSamplesAfter(PopBack(samples), t)
    ELSE samples

\* CurvePlot::CurvePlot(): an empty store
StoreInit ==
    /\ m_samples = <<>>
    /\ call = NoCall

AddSample ==
    \E sample \in Samples :
        /\ m_samples' = addSample(m_samples, sample)
        /\ call' = [op |-> "addSample", sample |-> sample, pre |-> m_samples]

RemoveSamplesBefore ==
    \E t \in TimeValues :
        /\ m_samples' = removeSamplesBefore(m_samples, t)
        /\ call' = [op |-> "removeSamplesBefore", t |-> t, pre |-> m_samples]

\* "before" is the call just before this one (its cutoff, and how many samples
\* it removed) when that call was removeSamplesBefore, and NoCall otherwise.
RemoveSamplesAfter ==
    \E t \in TimeValues :
        /\ m_samples' = removeSamplesAfter(m_samples, t)
        /\ call' = [op |-> "removeSamplesAfter", t |-> t, pre |-> m_samples,
                    before |-> IF call.op = "removeSamplesBefore"
                               THEN [op |-> call.op, t |-> call.t,
                                     removed |-> Len(call.pre) - Len(m_samples)]
                               ELSE NoCall]

(***************************************************************************)
(* HighPrec_Frustum.  The camera looks down the negative z axis, so        *)
(* farZ < nearZ < 0.  The four side planes pass through the origin; the    *)
(* normal of plane i is planeNormals[i] / normalLength, a unit vector      *)
(* pointing into the view volume.                                          *)
(***************************************************************************)
\* HighPrec_Frustum::HighPrec_Frustum: the normals are zero-extended
HighPrec_Frustum(nearZ, farZ, planeNormals, normalLength) ==
    [m_nearZ |-> nearZ, m_farZ |-> farZ,
     m_planeNormals |-> [i \in 1..4 |-> zeroExtend(planeNormals[i])],
     normalLength |-> normalLength]

\* center.dot(m_planeNormals[i]) < -radius, both sides times normalLength
BehindPlane(f, center4, radius, i) ==
    Dot(center4, f.m_planeNormals[i]) < -radius * f.normalLength

\* cullSphere with the near-plane test on the wrong side of the sphere
cullSphere4NearSign(f, center, radius) ==
    \/ center[3] + radius > f.m_nearZ
    \/ center[3] + radius < f.m_farZ
    \/ BehindPlane(f, center, radius, 1)
    \/ BehindPlane(f, center, radius, 2)
    \/ BehindPlane(f, center, radius, 3)
    \/ BehindPlane(f, center, radius, 4)

\* cullSphere that tests the side planes against the centre alone
cullSphere4NoRadius(f, center, radius) ==
    \/ center[3] - radius > f.m_nearZ
    \/ center[3] + radius < f.m_farZ
    \/ BehindPlane(f, center, 0, 1)
    \/ BehindPlane(f, center, 0, 2)
    \/ BehindPlane(f, center, 0, 3)
    \/ BehindPlane(f, center, 0, 4)

\* HighPrec_Frustum::cullSphere(const Vector4d&, double)
cullSphere4(f, center, radius) ==
    \/ center[3] - radius > f.m_nearZ
    \/ center[3] + radius < f.m_farZ
    \/ BehindPlane(f, center, radius, 1)
    \/ BehindPlane(f, center, radius, 2)
    \/ BehindPlane(f, center, radius, 3)
    \/ BehindPlane(f, center, radius, 4)

\* HighPrec_Frustum::cullSphere(const Vector3d&, double): the same tests
\* against the first three coordinates of the normals
cullSphere(f, center, radius) ==
    \/ center[3] - radius > f.m_nearZ
    \/ center[3] + radius < f.m_farZ
    \/ BehindPlane(f, zeroExtend(center), radius, 1)
    \/ BehindPlane(f, zeroExtend(center), radius, 2)
    \/ BehindPlane(f, zeroExtend(center), radius, 3)
    \/ BehindPlane(f, zeroExtend(center), radius, 4)

Coords == (-MaxCoord)..MaxCoord
Centers == Coords \X Coords \X Coords
Radii == 0..MaxRadius

\* two view volumes: a narrow one close to the camera and a wide one
Frusta ==
    { HighPrec_Frustum(-1, -3,
          << <<4, 0, -3>>, <<-4, 0, -3>>, <<0, 4, -3>>, <<0, -4, -3>> >>, 5),
      HighPrec_Frustum(-2, -3,
          << <<3, 0, -4>>, <<-3, 0, -4>>, <<0, 3, -4>>, <<0, -3, -4>> >>, 5) }

\* the arguments of a cullSphere call that has not run yet: a Vector3d, or a
\* Vector4d that is a point (w = 1) or a direction (w = 0)
CullArguments ==
    [op : {"pending"},
     center : Centers \cup { <<c[1], c[2], c[3], w>> : c \in Centers, w \in {0, 1} },
     radius : Radii]

FrustumInit ==
    /\ viewFrustum \in Frusta
    /\ culled \in CullArguments

\* a call of the Vector3d overload
CullSphere3 ==
    /\ culled.op = "pending"
    /\ Len(culled.center) = 3
    /\ culled' = [op |-> "cullSphere", center |-> culled.center,
                  radius |-> culled.radius,
                  result |-> cullSphere(viewFrustum, culled.center, culled.radius)]

\* a call of the Vector4d overload
CullSphere4 ==
    /\ culled.op = "pending"
    /\ Len(culled.center) = 4
    /\ culled' = [op |-> "cullSphere", center |-> culled.center,
                  radius |-> culled.radius,
                  result |-> cullSphere4(viewFrustum, culled.center, culled.radius)]

(***************************************************************************)
(* HighPrec_VertexBuffer.  data is the array of (capacity + 1) * 2         *)
(* Vertex structs; logical vertex n occupies data[2n] and data[2n + 1].    *)
(* scale holds twice the code's value: -1 for -0.5f and 1 for 0.5f.        *)
(***************************************************************************)
\* the spacing of the floats around the magnitude m: 1 up to 2^24, doubling
\* with every further bit
RECURSIVE FloatSpacing(_, _)
FloatSpacing(m, u) == IF m \div u < 2^24 THEN u ELSE FloatSpacing(m, 2 * u)

\* v.cast<float>() of one coordinate: a float keeps 24 significant bits, and
\* the rest is rounded off to the nearest float, a tie to the one whose last
\* bit is 0.  (Coordinates are integers, in the emitter's own checks, or
\* integer multiples of a power of two, in the render calls; the rounding is
\* the same for both.)
castFloat(x) ==
    LET m == Abs(x)
        u == FloatSpacing(m, 1)
        below == (m \div u) * u
        rest == m - below
        r == IF 2 * rest < u THEN below
             ELSE IF 2 * rest > u THEN below + u
             ELSE IF (below \div u) % 2 = 0 THEN below ELSE below + u
    IN  IF x < 0 THEN -r ELSE r

\* Eigen::Vector4f pos = v.cast<float>()
castFloat4(v) == [i \in 1..4 |-> castFloat(v[i])]

\* Eigen::Vector3f pos = v.cast<float>()
castFloat3(v) == [i \in 1..3 |-> castFloat(v[i])]

\* unsigned int arithmetic: a negative result wraps to a huge value.  The
\* model checker's integers end at 2^31 - 1, so the model wraps at 2^31 where the
\* code wraps at 2^32; either way a wrapped cursor is beyond every index.
UInt(x) == IF x >= 0 THEN x ELSE (2147483647 + x) + 1

\* a Vertex that was never written
Uninitialized == [position |-> <<>>, color |-> <<>>, scale |-> 0]

DataIndices == 0..((capacity + 1) * 2 - 1)

\* HighPrec_VertexBuffer::HighPrec_VertexBuffer
HighPrec_VertexBuffer ==
    [currentPosition |-> 0,
     data |-> [i \in DataIndices |-> Uninitialized],
     currentStripLength |-> 0,
     stripLengths |-> <<>>,
     color |-> <<>>,
     lineAsTriangles |-> FALSE]

\* HighPrec_VertexBuffer::setup: the cursors are reset, the data is not
setup(vb, lineAsTriangles) ==
    [vb EXCEPT !.stripLengths = <<>>,
               !.currentStripLength = 0,
               !.currentPosition = 0,
               !.lineAsTriangles = lineAsTriangles]

\* HighPrec_VertexBuffer::setColor
setColor(vb, aColor) == [vb EXCEPT !.color = aColor]

\* lines 262-267 and 274-279: one logical vertex written at data[index]
WriteVertex(data, index, pos, color) ==
    [data EXCEPT ![index] = [position |-> pos, color |-> color, scale |-> -1],
                 ![index + 1] = [position |-> pos, color |-> color, scale |-> 1]]

\* lines 226-231 and 238-243: position.segment<3>(0) = pos writes x, y and z
\* and leaves w as it was: unwritten (absent here) in a Vertex never written
WriteVertex3(data, index, pos, color) ==
    LET w(position) == IF Len(position) = 4 THEN <<position[4]>> ELSE <<>>
    IN  [data EXCEPT
            ![index] = [position |-> pos \o w(data[index].position),
                        color |-> color, scale |-> -1],
            ![index + 1] = [position |-> pos \o w(data[index + 1].position),
                            color |-> color, scale |-> 1]]

\* end(false) that repeats the last point in the extra slot
endNoFlushRepeatsLast(vb) ==
    LET index == vb.currentPosition * 2
        closed ==
            IF vb.currentStripLength > 1
            THEN [vb EXCEPT
                    !.data = [vb.data EXCEPT
                        ![index].position = vb.data[index - 2].position,
                        ![index + 1].position = vb.data[index - 1].position,
                        ![index - 2].scale = -vb.data[index - 2].scale,
                        ![index - 1].scale = -vb.data[index - 1].scale],
                    !.currentPosition = UInt(vb.currentPosition + 1),
                    !.stripLengths = Append(vb.stripLengths, vb.currentStripLength)]
            ELSE [vb EXCEPT
                    !.currentPosition =
                        UInt(vb.currentPosition - vb.currentStripLength)]
    IN  [closed EXCEPT !.currentStripLength = 0]

\* end(false) that abandons a short strip without moving the cursor back
endNoFlushNoRollback(vb) ==
    LET index == vb.currentPosition * 2
        closed ==
            IF vb.currentStripLength > 1
            THEN [vb EXCEPT
                    !.data = [vb.data EXCEPT
                        ![index].position = vb.data[index - 4].position,
                        ![index + 1].position = vb.data[index - 3].position,
                        ![index - 2].scale = -vb.data[index - 2].scale,
                        ![index - 1].scale = -vb.data[index - 1].scale],
                    !.currentPosition = UInt(vb.currentPosition + 1),
                    !.stripLengths = Append(vb.stripLengths, vb.currentStripLength)]
            ELSE vb
    IN  [closed EXCEPT !.currentStripLength = 0]

\* HighPrec_VertexBuffer::end(false): the strip is recorded, with the extra
\* point appended after it, or abandoned
endNoFlush(vb) ==
    LET index == vb.currentPosition * 2
        closed ==
            IF vb.currentStripLength > 1
            THEN [vb EXCEPT
                    !.data = [vb.data EXCEPT
                        ![index].position = vb.data[index - 4].position,
                        ![index + 1].position = vb.data[index - 3].position,
                        ![index - 2].scale = -vb.data[index - 2].scale,
                        ![index - 1].scale = -vb.data[index - 1].scale],
                    !.currentPosition = UInt(vb.currentPosition + 1),
                    !.stripLengths = Append(vb.stripLengths, vb.currentStripLength)]
            ELSE [vb EXCEPT
                    !.currentPosition =
                        UInt(vb.currentPosition - vb.currentStripLength)]
    IN  [closed EXCEPT !.currentStripLength = 0]

\* the start index (in logical vertices) of recorded strip k: lines 337-345
RECURSIVE StartIndex(_, _)
StartIndex(stripLengths, k) ==
    IF k = 1 THEN 0
    ELSE StartIndex(stripLengths, k - 1) + stripLengths[k - 1] + 1

\* One glDrawArrays call of flush and the vertices it makes GL read from the
\* uploaded data.  With lines the stride is two Vertex structs, so vertex j is
\* data[2 (first + j)]; with triangles the stride is one, so vertex j is
\* data[first + j].
DrawArrays(vb, startIndex, lineCount) ==
    IF vb.lineAsTriangles
    THEN [mode |-> "GL_TRIANGLE_STRIP", first |-> startIndex * 2,
          count |-> lineCount * 2,
          vertices |-> [j \in 1..(lineCount * 2) |->
                            vb.data[startIndex * 2 + j - 1]]]
    ELSE [mode |-> "GL_LINE_STRIP", first |-> startIndex,
          count |-> lineCount,
          vertices |-> [j \in 1..lineCount |->
                            vb.data[2 * (startIndex + j - 1)]]]

\* flush that never ends the strip still open
flushNoEnd(vb, endIfNeeded) ==
    IF vb.currentPosition > 0
    THEN [vbuf |-> [vb EXCEPT !.currentPosition = 0,
                              !.stripLengths = <<>>,
                              !.currentStripLength = 0],
          draws |-> [k \in 1..Len(vb.stripLengths) |->
                        DrawArrays(vb, StartIndex(vb.stripLengths, k),
                                   vb.stripLengths[k])]]
    ELSE [vbuf |-> [vb EXCEPT !.currentStripLength = 0], draws |-> <<>>]

\* HighPrec_VertexBuffer::flush: the buffer afterwards, and the draw calls
\* issued
flush(vb, endIfNeeded) ==
    IF vb.currentPosition > 0
    THEN LET ended == IF endIfNeeded /\ vb.currentStripLength > 1
                      THEN endNoFlush(vb) ELSE vb
         IN  [vbuf |-> [ended EXCEPT !.currentPosition = 0,
                                     !.stripLengths = <<>>,
                                     !.currentStripLength = 0],
              draws |-> [k \in 1..Len(ended.stripLengths) |->
                            DrawArrays(ended,
                                       StartIndex(ended.stripLengths, k),
                                       ended.stripLengths[k])]]
    ELSE [vbuf |-> [vb EXCEPT !.currentStripLength = 0], draws |-> <<>>]

\* end() that leaves a full buffer as it is
endNeverFlushes(vb) == [vbuf |-> endNoFlush(vb), draws |-> <<>>]

\* HighPrec_VertexBuffer::end(): end(false), then a flush when the buffer is
\* full
end(vb) ==
    LET ended == endNoFlush(vb)
    IN  IF ended.currentPosition = capacity
        THEN flush(ended, FALSE)
        ELSE [vbuf |-> ended, draws |-> <<>>]

\* vertex() that takes the colour the emitter holds for the one it is given
vertexColorOfEmitter(vb, v, color) ==
    LET pos == castFloat4(v)
        written == [vb EXCEPT
                      !.data = WriteVertex(vb.data, vb.currentPosition * 2,
                                           pos, vb.color),
                      !.currentPosition = UInt(vb.currentPosition + 1),
                      !.currentStripLength = UInt(vb.currentStripLength + 1)]
    IN  IF written.currentPosition = capacity
        THEN LET flushed == flush(written, TRUE)
             IN  [vbuf |-> [flushed.vbuf EXCEPT
                              !.data = WriteVertex(flushed.vbuf.data, 0, pos, vb.color),
                              !.currentPosition = 1,
                              !.currentStripLength = 1],
                  draws |-> flushed.draws]
        ELSE [vbuf |-> written, draws |-> <<>>]

\* vertex() that does not write the vertex again after the flush
vertexColorNoReseed(vb, v, color) ==
    LET pos == castFloat4(v)
        written == [vb EXCEPT
                      !.data = WriteVertex(vb.data, vb.currentPosition * 2,
                                           pos, color),
                      !.currentPosition = UInt(vb.currentPosition + 1),
                      !.currentStripLength = UInt(vb.currentStripLength + 1)]
    IN  IF written.currentPosition = capacity
        THEN flush(written, TRUE)
        ELSE [vbuf |-> written, draws |-> <<>>]

\* HighPrec_VertexBuffer::vertex(const Vector4d&, const Vector4f&): the vertex
\* is written at the cursor; when that fills the buffer it is flushed and the
\* vertex is written again at the start
vertexColor(vb, v, color) ==
    LET pos == castFloat4(v)
        written == [vb EXCEPT
                      !.data = WriteVertex(vb.data, vb.currentPosition * 2,
                                           pos, color),
                      !.currentPosition = UInt(vb.currentPosition + 1),
                      !.currentStripLength = UInt(vb.currentStripLength + 1)]
    IN  IF written.currentPosition = capacity
        THEN LET flushed == flush(written, TRUE)
             IN  [vbuf |-> [flushed.vbuf EXCEPT
                              !.data = WriteVertex(flushed.vbuf.data, 0, pos, color),
                              !.currentPosition = 1,
                              !.currentStripLength = 1],
                  draws |-> flushed.draws]
        ELSE [vbuf |-> written, draws |-> <<>>]

\* HighPrec_VertexBuffer::vertex(const Vector4d&): the colour is the one set
\* by setColor
vertex(vb, v) == vertexColor(vb, v, vb.color)

\* HighPrec_VertexBuffer::vertex(const Vector3d&): as the Vector4d overload,
\* with x, y and z alone written
vertex3(vb, v) ==
    LET pos == castFloat3(v)
        written == [vb EXCEPT
                      !.data = WriteVertex3(vb.data, vb.currentPosition * 2,
                                            pos, vb.color),
                      !.currentPosition = UInt(vb.currentPosition + 1),
                      !.currentStripLength = UInt(vb.currentStripLength + 1)]
    IN  IF written.currentPosition = capacity
        THEN LET flushed == flush(written, TRUE)
             IN  [vbuf |-> [flushed.vbuf EXCEPT
                              !.data = WriteVertex3(flushed.vbuf.data, 0, pos,
                                                    vb.color),
                              !.currentPosition = 1,
                              !.currentStripLength = 1],
                  draws |-> flushed.draws]
        ELSE [vbuf |-> written, draws |-> <<>>]

(***************************************************************************)
(* The emitter's operations as actions.  strip records the last call (op,  *)
(* and the cursors before it) and follows the strip being emitted:         *)
(*   phase    "open" from a begin() on a buffer with no strip under way,   *)
(*            "ended" after the end() that follows it, "flushed" after the *)
(*            flush() that follows that, and "none" once any other call    *)
(*            comes in between;                                            *)
(*   input    the positions given to vertex() since that begin();          *)
(*   mark     how many draw calls were issued or pending at that begin();  *)
(*   flushes  how many of its vertex() calls flushed the full buffer;      *)
(*   start    the cursor at which the strip now in the buffer started      *)
(*            (pre.start: the same before the last call);                  *)
(*   calls    how many vertex() calls were made in all.                    *)
(***************************************************************************)
\* arguments of vertex(): a Vector3d, and a Vector4d whose x is not a float
VertexPositions == { <<1, 0, -2>>, <<16777217, 0, -2, 1>> }
Colors == { <<1, 1, 1, 1>>, <<1, 0, 0, 1>> }

\* the cursors of the buffer, and where its current strip started
Cursors(vb, start) ==
    [currentPosition |-> vb.currentPosition,
     currentStripLength |-> vb.currentStripLength,
     stripLengths |-> vb.stripLengths,
     start |-> start]

EmitterInit ==
    /\ vbuf = HighPrec_VertexBuffer
    /\ glDraws = <<>>
    /\ strip = [op |-> "none", pre |-> Cursors(HighPrec_VertexBuffer, 0),
                phase |-> "none", input |-> <<>>, mark |-> 0, flushes |-> 0,
                start |-> 0, calls |-> 0]

\* the call op, which left the buffer as result.vbuf and issued result.draws
Called(op, result) ==
    /\ vbuf' = result.vbuf
    /\ glDraws' = glDraws \o result.draws

Setup ==
    \E lineAsTriangles \in BOOLEAN :
        /\ Called("setup", [vbuf |-> setup(vbuf, lineAsTriangles), draws |-> <<>>])
        /\ strip' = [strip EXCEPT !.op = "setup", !.pre = Cursors(vbuf, strip.start),
                                  !.phase = "none", !.input = <<>>,
                                  !.flushes = 0, !.start = 0]

SetColor ==
    \E aColor \in Colors :
        /\ Called("setColor", [vbuf |-> setColor(vbuf, aColor), draws |-> <<>>])
        /\ strip' = [strip EXCEPT !.op = "setColor", !.pre = Cursors(vbuf, strip.start)]

\* HighPrec_VertexBuffer::begin does nothing to the buffer
Begin ==
    /\ Called("begin", [vbuf |-> vbuf, draws |-> <<>>])
    /\ strip' = [strip EXCEPT
                   !.op = "begin", !.pre = Cursors(vbuf, strip.start),
                   !.phase = IF vbuf.currentStripLength = 0 THEN "open" ELSE "none",
                   !.input = <<>>,
                   !.mark = Len(glDraws) + Len(vbuf.stripLengths),
                   !.flushes = 0]

\* the vertex() call that fills the buffer
FillsBuffer(vb) == UInt(vb.currentPosition + 1) = capacity

VertexCalled(v, result) ==
    /\ Called("vertex", result)
    /\ strip' = [strip EXCEPT
                   !.op = "vertex", !.pre = Cursors(vbuf, strip.start),
                   !.phase = IF strip.phase = "open" THEN "open" ELSE "none",
                   !.input = IF strip.phase = "open" THEN Append(strip.input, v)
                             ELSE <<>>,
                   !.flushes = IF FillsBuffer(vbuf) THEN strip.flushes + 1
                               ELSE strip.flushes,
                   !.start = IF FillsBuffer(vbuf) THEN 0
                             ELSE IF vbuf.currentStripLength = 0
                                  THEN vbuf.currentPosition
                                  ELSE strip.start,
                   !.calls = strip.calls + 1]

\* a vertex() call: the overload is the one of the argument's type
Vertex ==
    \E v \in VertexPositions :
        VertexCalled(v, IF Len(v) = 3 THEN vertex3(vbuf, v) ELSE vertex(vbuf, v))

End ==
    /\ Called("end", end(vbuf))
    /\ strip' = [strip EXCEPT
                   !.op = "end", !.pre = Cursors(vbuf, strip.start),
                   !.phase = IF strip.phase = "open" THEN "ended" ELSE "none",
                   !.start = end(vbuf).vbuf.currentPosition]

Flush ==
    /\ Called("flush", flush(vbuf, TRUE))
    /\ strip' = [strip EXCEPT
                   !.op = "flush", !.pre = Cursors(vbuf, strip.start),
                   !.phase = IF strip.phase = "ended" THEN "flushed" ELSE "none",
                   !.start = 0]

\* a vertex() call with a Vector4d, made at any moment
AnyVertex ==
    \E v \in { p \in VertexPositions : Len(p) = 4 } :
        VertexCalled(v, vertex(vbuf, v))

\* The logical slots (pairs of Vertex structs, index \div 2) that end(false)
\* writes on a buffer with cursor currentPosition and open-strip length
\* currentStripLength: the extra point at the cursor and the scales of the
\* point before it (lines 298-313)
EndWrites(currentPosition, currentStripLength) ==
    IF currentStripLength > 1 THEN {currentPosition - 1, currentPosition} ELSE {}

\* the slots flush() writes: those of the end(false) it calls (lines 328-333)
FlushWrites(currentPosition, currentStripLength) ==
    IF currentPosition > 0
    THEN EndWrites(currentPosition, currentStripLength) ELSE {}

\* The slots the call op writes on a buffer whose cursors were c: vertex()
\* writes at the cursor and, when that fills the buffer, what flush() writes
\* and slot 0 (lines 260-283); end() and flush() as above; setup() and
\* begin() write nothing.
WrittenSlots(op, c) ==
    CASE op = "vertex" ->
            {c.currentPosition} \cup
            (IF UInt(c.currentPosition + 1) = capacity
             THEN FlushWrites(UInt(c.currentPosition + 1),
                              UInt(c.currentStripLength + 1)) \cup {0}
             ELSE {})
      [] op = "end" -> EndWrites(c.currentPosition, c.currentStripLength)
      [] op = "flush" -> FlushWrites(c.currentPosition, c.currentStripLength)
      [] OTHER -> {}

(***************************************************************************)
(* flush() on its own, for buffers that hold several recorded strips: the  *)
(* buffers of an emitter with room for MaxSlots points, as begin(),        *)
(* vertex() and end() leave them while the buffer is not full.             *)
(***************************************************************************)
MaxSlots == 8

\* the strips recorded in such a buffer have 2 or 3 points
StripLengthChoices == {2, 3}

\* the points left in the strip still open
OpenLengthChoices == 0..2

\* lines 256-266 of vertex(), n times from the cursor on: the buffer is not
\* filled, so vertex() does no more
RECURSIVE WriteVertices(_, _)
WriteVertices(vb, n) ==
    IF n = 0 THEN vb
    ELSE WriteVertices(
             [vb EXCEPT
                !.data = WriteVertex(vb.data, vb.currentPosition * 2,
                                     castFloat4(<<vb.currentPosition + 1, 0, -2, 1>>),
                                     vb.color),
                !.currentPosition = UInt(vb.currentPosition + 1),
                !.currentStripLength = UInt(vb.currentStripLength + 1)],
             n - 1)

\* the buffer after setup, setColor and one strip of each of the lengths:
\* vertex() calls and end(), which does not flush a buffer that is not full
RECURSIVE RecordedStrips(_, _)
RecordedStrips(empty, lengths) ==
    IF lengths = <<>> THEN empty
    ELSE endNoFlush(WriteVertices(RecordedStrips(empty, SubSeq(lengths, 1, Len(lengths) - 1)),
                                  lengths[Len(lengths)]))

\* the slots the strips and the open strip take: a recorded strip takes one
\* more than its length
RECURSIVE SlotsTaken(_)
SlotsTaken(lengths) ==
    IF lengths = <<>> THEN 0
    ELSE lengths[1] + 1 + SlotsTaken(Tail(lengths))

\* an emitter with room for MaxSlots points, set up
RoomyBuffer(lineAsTriangles, aColor) ==
    setColor(setup([HighPrec_VertexBuffer EXCEPT
                       !.data = [i \in 0..((MaxSlots + 1) * 2 - 1) |-> Uninitialized]],
                   lineAsTriangles),
             aColor)

\* the strips recorded and the open strip fit into the buffer
StripChoices ==
    { c \in (UNION { [1..n -> StripLengthChoices] : n \in 0..(MaxSlots \div 3) })
                 \X OpenLengthChoices :
        SlotsTaken(c[1]) + c[2] <= MaxSlots }

FlushBuffers ==
    { WriteVertices(RecordedStrips(RoomyBuffer(lineAsTriangles, aColor), c[1]), c[2]) :
        lineAsTriangles \in BOOLEAN, aColor \in Colors, c \in StripChoices }

FlushInit ==
    /\ vbuf \in FlushBuffers
    /\ glDraws = <<>>
    /\ strip = [op |-> "none", pre |-> Cursors(HighPrec_VertexBuffer, 0),
                phase |-> "none", input |-> <<>>, mark |-> 0, flushes |-> 0,
                start |-> 0, calls |-> 0]

\* vertex() calls a behaviour may make: enough for a strip that starts in an
\* empty buffer to fill it twice
MaxCalls == 2 * capacity - 1

\* a frustum when none is under test
IdleFrustum ==
    /\ viewFrustum = HighPrec_Frustum(-1, -3,
          << <<4, 0, -3>>, <<-4, 0, -3>>, <<0, 4, -3>>, <<0, -4, -3>> >>, 5)
    /\ culled = NoCall


(***************************************************************************)
(* The render calls.  Inside a render call every coordinate, radius,       *)
(* curve parameter and opacity is a double that is an integer multiple of  *)
(* 1 / Unit, held as that integer: the samples lie 2 apart in time, the    *)
(* times asked for are integers, and a subdivision step divides by 8, so   *)
(* down to the second level of subdivision the doubles of the code are     *)
(* these numbers exactly.                                                  *)
(***************************************************************************)
Unit == 2^21

SubdivisionFactor == 8

\* the second of two values, whichever is larger
Unclamped(a, b) == b

\* std::max(a, b)
Max(a, b) == IF a < b THEN b ELSE a

\* a clamp from above only
ClampFromAbove(v, lo, hi) == IF hi < v THEN hi ELSE v

\* std::clamp(v, lo, hi)
Clamp(v, lo, hi) == IF v < lo THEN lo ELSE IF hi < v THEN hi ELSE v

\* no render call yet
IdleRender == rendered = NoCall

\* an opacity that is not a number: 0 * infinity
OpacityNaN == -1

\* (x - fadeStart) * fadeRate, clamped to [0, 1], where fadeRate is
\* rateNum / fadeDuration: with fadeDuration = 0 the rate is 1.0 / 0.0 =
\* +infinity, the product is +infinity, -infinity or (0 * infinity) NaN, and
\* std::clamp hands a NaN back
FadeOpacity(x, fadeStart, rateNum, fadeDuration) ==
    LET offset == x - fadeStart
    IN  IF fadeDuration = 0
        THEN IF offset > 0 THEN Unit ELSE IF offset < 0 THEN 0 ELSE OpacityNaN
        ELSE Clamp((offset * rateNum) \div fadeDuration, 0, Unit)

\* Vector4f(color.x(), color.y(), color.z(), color.w() * float(opacity))
FadedColor(color, opacity) ==
    << color[1], color[2], color[3],
       IF opacity = OpacityNaN THEN OpacityNaN
       ELSE castFloat(color[4] * castFloat(opacity)) >>

\* the state of a render call under way: the emitter, the draw calls it
\* issued, the restartCurve flag, and the record of what the call did
\* (culledFirst: a piece of a cubic was culled before any vertex was emitted;
\* depth: the largest depth argument of renderCubic so far, kept for every
\* call made by a render function in cubic; pieces: one entry for every
\* segment and sub-segment the call decided about, see Piece)
RenderState(vb) ==
    [vbuf |-> vb, draws |-> <<>>, restartCurve |-> TRUE,
     reads |-> <<>>, calls |-> <<>>, cubic |-> <<>>, emitted |-> <<>>,
     culledFirst |-> FALSE, depth |-> 0, tooDeep |-> FALSE, pieces |-> <<>>,
     current |-> 0, points |-> <<>>]

\* The one element of a set.  A statement's result is bound by
\* x \in {result} before the next statement uses it, as a local variable of
\* the code holds it.
Only(S) == CHOOSE x \in S : TRUE

\* a call of the emitter operation op, which left result; points keeps the
\* restartCurve flag, the emitter's open-strip length (currentStripLength)
\* and recorded strips, and the numbers of vertices emitted and of draw calls
\* issued so far, as they were when the operation was called, and the
\* number of draw calls the operation issued
Emitter(rs, op, result) ==
    Only({ [s EXCEPT !.vbuf = r.vbuf,
                     !.draws = @ \o r.draws,
                     !.calls = Append(@, op),
                     !.points = Append(@, [op |-> op,
                                           restartCurve |-> s.restartCurve,
                                           open |-> s.vbuf.currentStripLength,
                                           recorded |-> s.vbuf.stripLengths,
                                           emitted |-> Len(s.emitted),
                                           draws |-> Len(s.draws),
                                           issued |-> Len(r.draws)])] :
             s \in {rs}, r \in {result} })

\* One pass of a loop body over a segment (level 0) or a sub-segment (the
\* depth of the renderCubic call) is recorded: the branch taken (path:
\* "culled" by the frustum, "farCulled" by the far plane test, "subdivided",
\* "drawn"), the values the decision was made from (test), restartCurve
\* before and after, and the emitter calls and the vertices of the pass.  A
\* subdivided piece is recorded when the recursive call is entered; current
\* is then the index of that piece, until the call returns, and every piece
\* has as parent the piece whose renderCubic call decided about it (0 for a
\* segment of the top level).
Piece(before, after, path, test) ==
    Only({ [a EXCEPT !.pieces =
                Append(@, [path |-> path, test |-> test,
                           parent |-> before.current,
                           restartBefore |-> before.restartCurve,
                           restartAfter |-> a.restartCurve,
                           emittedBefore |-> Len(before.emitted),
                           calls |-> SubSeq(a.calls, Len(before.calls) + 1,
                                            Len(a.calls)),
                           vertices |-> SubSeq(a.emitted, Len(before.emitted) + 1,
                                               Len(a.emitted))]),
                      !.current = IF path = "subdivided" THEN Len(a.pieces) + 1
                                  ELSE before.current] :
             a \in {after} })

\* the values a decision about a piece is made from: the bounding radius and
\* the point tested, the previous point, and whether the piece is the first
\* or the last segment of a time range
PieceTest(level, step, radius, threshold, frustum, from, to, tested, forced) ==
    [level |-> level, step |-> step, radius |-> radius, threshold |-> threshold,
     nearZ |-> frustum.m_nearZ, farZ |-> frustum.m_farZ,
     from |-> from, to |-> to, z |-> tested[3], forced |-> forced]

\* vbuf.end() whether or not a strip is open
EndAnyStrip(rs) == [Emitter(rs, "end", end(rs.vbuf)) EXCEPT !.restartCurve = TRUE]

\* if (!restartCurve) { vbuf.end(); restartCurve = true; }
EndStrip(rs) ==
    IF rs.restartCurve THEN rs
    ELSE [Emitter(rs, "end", end(rs.vbuf)) EXCEPT !.restartCurve = TRUE]

\* vbuf.vertex(p), or in a faded render vbuf.vertex(p, color * opacity); v
\* is the point, its time on the curve and its opacity
EmitVertex(rs, fade, v) ==
    Only({ [Emitter(s, "vertex",
                    IF fade.faded
                    THEN vertexColor(s.vbuf, p.position,
                                     FadedColor(fade.color, p.opacity))
                    ELSE vertex(s.vbuf, p.position))
              EXCEPT !.emitted = Append(@, p)] : s \in {rs}, p \in {v} })

\* a line that never continues the open strip: the strip is ended and a new
\* one begun for every line
LineToNewStrip(rs, fade, from, to) ==
    Only({ EmitVertex([EmitVertex(Emitter(ended, "begin",
                                          [vbuf |-> ended.vbuf, draws |-> <<>>]),
                                  fade, from)
                         EXCEPT !.restartCurve = FALSE],
                      fade, to) : ended \in {EndStrip(rs)} })

\* if (restartCurve) { vbuf.begin(); vbuf.vertex(from); restartCurve = false; }
\* vbuf.vertex(to);
LineTo(rs, fade, from, to) ==
    LET begun ==
            IF rs.restartCurve
            THEN [EmitVertex(Emitter(rs, "begin", [vbuf |-> rs.vbuf, draws |-> <<>>]),
                             fade, from)
                    EXCEPT !.restartCurve = FALSE]
            ELSE rs
    IN  EmitVertex(begun, fade, to)

\* coeff * Vector4d(1, t, t * t, t * t * t) at t = n / q
CurvePoint(coeff, n, q) ==
    [row \in 1..4 |->
        coeff[1][row] + (coeff[2][row] \div q) * n
            + (coeff[3][row] \div (q * q)) * n * n
            + (coeff[4][row] \div (q * q * q)) * n * n * n]

\* One call of renderCubic or renderCubicFaded, for the local parameters
\* t0 = t0n / q and t1 = t1n / q: dt = (t1 - t0) / 8 and the points it visits
\* are t0 + dt * i = (base + step * i) / (8 q).  segment is the start time and
\* the length of the curve segment, fade the colour and the fade, if any.
CubicCallSameRadius(frustum, threshold, coeff, t0n, t1n, q, curveBoundingRadius, depth, fade, segment) ==
    [frustum |-> frustum, threshold |-> threshold, coeff |-> coeff,
     base |-> SubdivisionFactor * t0n, step |-> t1n - t0n,
     q |-> SubdivisionFactor * q,
     segmentBoundingRadius |-> curveBoundingRadius,
     depth |-> depth, fade |-> fade, segment |-> segment]

\* the call as the code makes it
CubicCall(frustum, threshold, coeff, t0n, t1n, q, curveBoundingRadius, depth, fade, segment) ==
    [frustum |-> frustum, threshold |-> threshold, coeff |-> coeff,
     base |-> SubdivisionFactor * t0n, step |-> t1n - t0n,
     q |-> SubdivisionFactor * q,
     segmentBoundingRadius |-> curveBoundingRadius \div SubdivisionFactor,
     depth |-> depth, fade |-> fade, segment |-> segment]

\* the point of the curve at t = n / c.q, its time and its opacity
CurveVertex(c, n) ==
    LET t == n * (Unit \div c.q)
    IN  [position |-> CurvePoint(c.coeff, n, c.q),
         time |-> c.segment.t * Unit + c.segment.dt * t,
         opacity |-> IF c.fade.faded
                     THEN FadeOpacity(t, c.fade.fadeStart, c.fade.rateNum,
                                      c.fade.fadeDuration)
                     ELSE Unit]

\* the recursive call for step i: renderCubic(restartCurve, coeff, t - dt, t,
\* segmentBoundingRadius, depth + 1)
Subdivide(c, i) ==
    CubicCall(c.frustum, c.threshold, c.coeff,
              c.base + c.step * (i - 1), c.base + c.step * i, c.q,
              c.segmentBoundingRadius, c.depth + 1, c.fade, c.segment)

\* The loop of renderCubic and renderCubicFaded from step i on.  A level
\* whose points are no multiples of 1 / Unit is not entered but flagged, and
\* the call is followed no further.
\* (segmentBoundingRadius >= threshold * minDistance is written without the
\* product: the threshold is a positive integer)
RECURSIVE CubicLoop(_, _, _)
CubicLoop(rs, c, i) ==
    IF i > SubdivisionFactor THEN rs
    ELSE Only({ IF done.tooDeep THEN done ELSE CubicLoop(done, c, i + 1) :
                  done \in
                    { LET minDistance == Max(-c.frustum.m_nearZ,
                                             Abs(p.position[3])
                                                 - c.segmentBoundingRadius)
                          test == PieceTest(c.depth, i, c.segmentBoundingRadius,
                                            c.threshold, c.frustum, lastP, p,
                                            p.position, FALSE)
                      IN  IF c.segmentBoundingRadius \div c.threshold >= minDistance
                          THEN IF cullSphere4(c.frustum, p.position,
                                              c.segmentBoundingRadius)
                               THEN Piece(rs, [EndStrip(rs) EXCEPT
                                                 !.culledFirst = @ \/ rs.emitted = <<>>],
                                          "culled", test)
                               ELSE IF deeper.q * deeper.q * deeper.q > Unit
                                    THEN [rs EXCEPT !.tooDeep = TRUE]
                                    ELSE Only({ [CubicLoop(entered, deeper, 1)
                                                   EXCEPT !.current = rs.current] :
                                                  entered \in
                                                    { Piece(rs, [rs EXCEPT !.depth =
                                                                   Max(@, deeper.depth)],
                                                            "subdivided", test) } })
                          ELSE Piece(rs, LineTo(rs, c.fade, lastP, p), "drawn", test) :
                      lastP \in { CurveVertex(c, c.base + c.step * (i - 1)) },
                      p \in { CurveVertex(c, c.base + c.step * i) },
                      deeper \in { Subdivide(c, i) } } })

\* no fade: vbuf.vertex(p) draws with the colour set by setColor
NoFade == [faded |-> FALSE]

\* HighPrec_RenderContext::renderCubic
renderCubic(rs, frustum, threshold, coeff, t0n, t1n, q, curveBoundingRadius, depth, segment) ==
    Only({ [done EXCEPT !.cubic[Len(done.cubic)].depth = done.depth,
                        !.depth = Max(rs.depth, done.depth),
                        !.current = 0] :
             done \in
               { CubicLoop(entered, c, 1) :
                   entered \in
                     { [rs EXCEPT
                          !.depth = depth,
                          !.cubic = Append(@, [t0n |-> t0n, t1n |-> t1n, q |-> q,
                                               segment |-> segment,
                                               radius |-> curveBoundingRadius,
                                               depth |-> depth])] },
                   c \in { CubicCall(frustum, threshold, coeff, t0n, t1n, q,
                                     curveBoundingRadius, depth, NoFade, segment) } } })

\* HighPrec_RenderContext::renderCubicFaded
renderCubicFaded(rs, frustum, threshold, coeff, t0n, t1n, q, fade, curveBoundingRadius, depth, segment) ==
    Only({ [done EXCEPT !.cubic[Len(done.cubic)].depth = done.depth,
                        !.depth = Max(rs.depth, done.depth),
                        !.current = 0] :
             done \in
               { CubicLoop(entered, c, 1) :
                   entered \in
                     { [rs EXCEPT
                          !.depth = depth,
                          !.cubic = Append(@, [t0n |-> t0n, t1n |-> t1n, q |-> q,
                                               segment |-> segment,
                                               radius |-> curveBoundingRadius,
                                               depth |-> depth])] },
                   c \in { CubicCall(frustum, threshold, coeff, t0n, t1n, q,
                                     curveBoundingRadius, depth, fade, segment) } } })

\* modelview * Vector4d(v.x(), v.y(), v.z(), w), in multiples of 1 / Unit; the
\* translation of the modelview is translation + fraction / Unit
CameraSpace(modelview, v, w) ==
    << Unit * (Dot(modelview.linear[1], v) + w * modelview.translation[1])
           + w * modelview.fraction[1],
       Unit * (Dot(modelview.linear[2], v) + w * modelview.translation[2])
           + w * modelview.fraction[2],
       Unit * (Dot(modelview.linear[3], v) + w * modelview.translation[3])
           + w * modelview.fraction[3],
       Unit * w >>

\* m_samples[i].boundingRadius as render reads it: the model's store keeps
\* the square of the radius
BoundingRadius(sample) ==
    Unit * (CHOOSE r \in 0..sample.boundingRadius : r * r = sample.boundingRadius)

\* HighPrec_Frustum viewFrustum(nearZ, farZ, viewFrustumPlaneNormals)
RenderFrustum(a) ==
    HighPrec_Frustum(Unit * a.nearZ, Unit * a.farZ, a.planeNormals, a.normalLength)

\* m_samples[index] (index from 0) is read
ReadSample(rs, index) == [rs EXCEPT !.reads = Append(@, index)]

\* an end that leaves the open strip to flush()
FinishRenderNoEnd(rs) ==
    Only({ [Emitter(open, "flush", flush(open.vbuf, TRUE))
              EXCEPT !.calls = Append(@, "finish")] : open \in {rs} })

\* the end of every render call: if (!restartCurve) { vbuf.end(); } which
\* leaves the flag as it is, then flush() and finish()
FinishRender(rs) ==
    Only({ [Emitter(ended, "flush", flush(ended.vbuf, TRUE))
              EXCEPT !.calls = Append(@, "finish")] :
             ended \in { IF open.restartCurve THEN open
                         ELSE Emitter(open, "end", end(open.vbuf)) : open \in {rs} } })

\* createVertexBuffer() and setup(lineAsTriangles)
SetupRender(rs, a) ==
    Emitter([rs EXCEPT !.calls = Append(@, "createVertexBuffer")],
            "setup", [vbuf |-> setup(rs.vbuf, a.lineAsTriangles), draws |-> <<>>])

\* vbuf.setColor(color)
SetRenderColor(rs, a) ==
    Emitter(rs, "setColor", [vbuf |-> setColor(rs.vbuf, a.color), draws |-> <<>>])

\* the sample at index i (from 0) as a vertex of a straight line
SampleVertex(a, samples, i, opacity) ==
    [position |-> CameraSpace(a.modelview, samples[i + 1].position, 1),
     time |-> Unit * samples[i + 1].t,
     opacity |-> opacity]

\* a far plane test of the start point alone
CentreBeyondFarPlane(p0, curveBoundingRadius, farZ) == p0[3] < farZ

\* p0.z() + curveBoundingRadius < farZ: the simple cull test of the
\* straight-line path
BeyondFarPlane(p0, curveBoundingRadius, farZ) == p0[3] + curveBoundingRadius < farZ

\* the body of the loop of the full-range render, lines 720-805, for the
\* segment that ends at sample i (from 0)
renderSegment(rs, a, samples, i) ==
    LET frustum == RenderFrustum(a)
        p0 == CameraSpace(a.modelview, samples[i].position, 1)
        v0 == CameraSpace(a.modelview, samples[i].velocity, 0)
        p1 == CameraSpace(a.modelview, samples[i + 1].position, 1)
        v1 == CameraSpace(a.modelview, samples[i + 1].velocity, 0)
        curveBoundingRadius == BoundingRadius(samples[i + 1])
        minDistance == Abs(p0[3]) - curveBoundingRadius
        dt == samples[i + 1].t - samples[i].t
        read == ReadSample(rs, i)
        from == SampleVertex(a, samples, i - 1, Unit)
        to == SampleVertex(a, samples, i, Unit)
        test == PieceTest(0, i, curveBoundingRadius, a.subdivisionThreshold,
                          frustum, from, to, p0, FALSE)
    IN  IF curveBoundingRadius >= a.subdivisionThreshold * minDistance
        THEN IF cullSphere4(frustum, p0, curveBoundingRadius)
             THEN Piece(rs, EndStrip(read), "culled", test)
             ELSE renderCubic(Piece(rs, read, "subdivided", test),
                              frustum, a.subdivisionThreshold,
                              cubicHermiteCoefficients(p0, p1, VScale(dt, v0),
                                                       VScale(dt, v1)),
                              0, dt, dt, curveBoundingRadius, 1,
                              [t |-> samples[i].t, dt |-> dt])
        ELSE IF BeyondFarPlane(p0, curveBoundingRadius, frustum.m_farZ)
             THEN Piece(rs, EndStrip(read), "farCulled", test)
             ELSE Piece(rs, LineTo(read, NoFade, from, to), "drawn", test)

RECURSIVE renderSegments(_, _, _, _)
renderSegments(rs, a, samples, i) ==
    IF i < Len(samples)
    THEN Only({ renderSegments(next, a, samples, i + 1) :
                  next \in {renderSegment(rs, a, samples, i)} })
    ELSE rs

\* CurvePlot::render, the full range.  The first statement reads
\* m_samples[0] whether or not there is one.
render(vb, a, samples) ==
    Only({ FinishRender(renderSegments(ready, a, samples, 1)) :
             ready \in { SetRenderColor(SetupRender(read, a), a) :
                           read \in {ReadSample(RenderState(vb), 0)} } })

\* the linear search of lines 852-858 and 1021-1027, from index k on: the
\* first sample whose time is not before startTime, then one back
RECURSIVE SearchStart(_, _, _)
SearchStart(samples, startTime, k) ==
    IF k < Len(samples) - 1 /\ startTime > samples[k + 1].t
    THEN SearchStart(samples, startTime, k + 1)
    ELSE k

\* the search without the step back
StartSampleNoStepBack(samples, startTime) == SearchStart(samples, startTime, 0)

StartSample(samples, startTime) ==
    LET found == SearchStart(samples, startTime, 0)
    IN  IF found > 0 THEN found - 1 ELSE found

\* the early return with strict comparisons: a range that only touches the
\* stored range is rendered
NothingInRangeStrict(samples, startTime, endTime) ==
    \/ samples = <<>>
    \/ endTime < samples[1].t
    \/ startTime > samples[Len(samples)].t

\* m_samples.empty() || endTime <= m_samples.front().t
\*                   || startTime >= m_samples.back().t
NothingInRange(samples, startTime, endTime) ==
    \/ samples = <<>>
    \/ endTime <= samples[1].t
    \/ startTime >= samples[Len(samples)].t

\* the fade of a renderFaded call, as the straight-line path uses it
\* (opacity = (t - fadeStartTime) * fadeRate) and as renderCubicFaded gets it
\* for the segment from tPrev on (fadeStart = (fadeStartTime - tPrev) / dt,
\* fadeRate * dt)
LineFade(a) ==
    [faded |-> TRUE, color |-> a.color, fadeStart |-> Unit * a.fadeStartTime,
     rateNum |-> 1, fadeDuration |-> a.fadeEndTime - a.fadeStartTime]
CubicFade(a, tPrev, dt) ==
    [faded |-> TRUE, color |-> a.color,
     fadeStart |-> (Unit * (a.fadeStartTime - tPrev)) \div dt,
     rateNum |-> dt, fadeDuration |-> a.fadeEndTime - a.fadeStartTime]

\* opacity0 and opacity1 of renderFaded: the opacity at sample i (from 0)
SampleOpacity(a, samples, i) ==
    LET fade == LineFade(a)
    IN  FadeOpacity(Unit * samples[i + 1].t, fade.fadeStart, fade.rateNum,
                    fade.fadeDuration)

\* abs(int) for the abs of line 902: the double is converted to int, which
\* drops its fraction
absOfInt(x) == (Abs(x) \div Unit) * Unit

\* The overloads an unqualified call of abs can resolve to.  The file includes
\* <algorithm>, <cmath> and <vector> (lines 37-39) and has no using
\* directive: whether the double overload of std::abs is visible in the
\* global namespace next to abs(int) depends on the standard library and on
\* what the other headers include.
AbsOverloads == {"double", "int"}

\* The abs of the threshold test: std::abs in the full-range render (742) and
\* in renderFaded (1077), the unqualified abs in the time-range render (902)
abs(overload, x) == IF overload = "int" THEN absOfInt(x) ELSE Abs(x)

\* only the last segment of the range is taken whatever the test says
LastSegmentOnly(firstSegment, lastSegment) == lastSegment

\* || lastSegment || firstSegment: the segments a time range takes to the
\* cubic path whatever the threshold test says
BoundarySegment(firstSegment, lastSegment) == lastSegment \/ firstSegment

\* The body of the loop of the time-range render, lines 875-972, and of
\* renderFaded, lines 1061-1159, for the segment that ends at sample i (from
\* 0); ls is the render state with the firstSegment and lastSegment flags
\* and the overload the call of abs resolves to.
rangeSegment(ls, a, samples, i) ==
    LET frustum == RenderFrustum(a)
        faded == a.entry = "renderFaded"
        p0 == CameraSpace(a.modelview, samples[i].position, 1)
        v0 == CameraSpace(a.modelview, samples[i].velocity, 0)
        p1 == CameraSpace(a.modelview, samples[i + 1].position, 1)
        v1 == CameraSpace(a.modelview, samples[i + 1].velocity, 0)
        lastSegment == a.endTime <= samples[i + 1].t
        curveBoundingRadius == BoundingRadius(samples[i + 1])
        minDistance == abs(ls.abs, p0[3]) - curveBoundingRadius
        dt == samples[i + 1].t - samples[i].t
        t0n == IF ls.firstSegment
               THEN Clamp(a.startTime - samples[i].t, 0, dt) ELSE 0
        t1n == IF lastSegment THEN a.endTime - samples[i].t ELSE dt
        coeff == cubicHermiteCoefficients(p0, p1, VScale(dt, v0), VScale(dt, v1))
        segment == [t |-> samples[i].t, dt |-> dt]
        read == ReadSample(ls.rs, i)
        from == SampleVertex(a, samples, i - 1,
                             IF faded THEN SampleOpacity(a, samples, i - 1)
                             ELSE Unit)
        to == SampleVertex(a, samples, i,
                           IF faded THEN SampleOpacity(a, samples, i) ELSE Unit)
        test == PieceTest(0, i, curveBoundingRadius, a.subdivisionThreshold,
                          frustum, from, to, p0,
                          BoundarySegment(ls.firstSegment, lastSegment))
        entered == Piece(ls.rs, read, "subdivided", test)
    IN  IF \/ curveBoundingRadius >= a.subdivisionThreshold * minDistance
           \/ BoundarySegment(ls.firstSegment, lastSegment)
        THEN IF cullSphere4(frustum, p0, curveBoundingRadius)
             THEN [ls EXCEPT !.rs = Piece(ls.rs, EndStrip(read), "culled", test),
                             !.lastSegment = lastSegment]
             ELSE [rs |-> IF faded
                          THEN renderCubicFaded(entered, frustum, a.subdivisionThreshold,
                                                coeff, t0n, t1n, dt,
                                                CubicFade(a, samples[i].t, dt),
                                                curveBoundingRadius, 1, segment)
                          ELSE renderCubic(entered, frustum, a.subdivisionThreshold,
                                           coeff, t0n, t1n, dt,
                                           curveBoundingRadius, 1, segment),
                   firstSegment |-> FALSE,
                   lastSegment |-> lastSegment, abs |-> ls.abs]
        ELSE [ls EXCEPT
                !.rs = IF BeyondFarPlane(p0, curveBoundingRadius, frustum.m_farZ)
                       THEN Piece(ls.rs, EndStrip(read), "farCulled", test)
                       ELSE Piece(ls.rs,
                                  LineTo(read, IF faded THEN LineFade(a) ELSE NoFade,
                                         from, to),
                                  "drawn", test),
                !.lastSegment = lastSegment]

RECURSIVE rangeSegments(_, _, _, _)
rangeSegments(ls, a, samples, i) ==
    IF i < Len(samples) /\ ~ls.lastSegment
    THEN Only({ rangeSegments(next, a, samples, i + 1) :
                  next \in {rangeSegment(ls, a, samples, i)} })
    ELSE ls

\* the time-range render and renderFaded after their early return: the
\* search, setup (and setColor, which renderFaded leaves out), the segments
\* from startSample + 1 on, and the end
RenderRangeFrom(overload, vb, a, samples) ==
    LET startSample == StartSample(samples, a.startTime)
    IN  Only({ FinishRender(ls.rs) :
                 ls \in
                   { rangeSegments(first, a, samples, startSample + 1) :
                       first \in
                         { [rs |-> IF a.entry = "renderFaded" THEN set
                                   ELSE SetRenderColor(set, a),
                            firstSegment |-> TRUE, lastSegment |-> FALSE,
                            abs |-> overload] :
                             set \in { SetupRender(read, a) :
                                         read \in { ReadSample(RenderState(vb),
                                                               startSample) } } } } })

\* the early return: of a store that is not empty the first sample was read
\* and, unless endTime decided, the last
EarlyReturn(vb, a, samples) ==
    [RenderState(vb) EXCEPT
        !.reads = IF samples = <<>> THEN <<>>
                  ELSE IF a.endTime <= samples[1].t THEN <<0>>
                  ELSE <<0, Len(samples) - 1>>]

\* CurvePlot::render with a time range, in a build whose unqualified abs is
\* the given overload
renderTimeRange(overload, vb, a, samples) ==
    IF NothingInRange(samples, a.startTime, a.endTime)
    THEN EarlyReturn(vb, a, samples)
    ELSE RenderRangeFrom(overload, vb, a, samples)

\* CurvePlot::renderFaded, which calls std::abs
renderFaded(vb, a, samples) ==
    IF NothingInRange(samples, a.startTime, a.endTime)
    THEN EarlyReturn(vb, a, samples)
    ELSE RenderRangeFrom("double", vb, a, samples)

(***************************************************************************)
(* The render calls as actions.  A behaviour is one render call: the store *)
(* and the arguments are drawn at the start, the call runs in one step.    *)
(***************************************************************************)
\* position and velocity of the samples of the rendered curves: the curves
\* run along the x axis, so that their bounding radii are whole numbers
PlotPoints ==
    { [position |-> <<0, 0, 0>>, velocity |-> <<0, 0, 0>>],
      [position |-> <<2, 0, 0>>, velocity |-> <<1, 0, 0>>],
      [position |-> <<-4, 0, 0>>, velocity |-> <<0, 0, 0>>] }

\* the stores of n samples, added by addSample at the times 0, 2, 4, ...,
\* each later than the last and so pushed at the back; the curve starts at
\* rest in the origin
RECURSIVE Plots(_)
Plots(n) ==
    IF n = 0 THEN { <<>> }
    ELSE { PushBackWithRadius(samples,
                              [t |-> 2 * (n - 1), position |-> point.position,
                               velocity |-> point.velocity, boundingRadius |-> 0]) :
             samples \in Plots(n - 1),
             point \in IF n = 1 THEN { q \in PlotPoints : NormSq(q.position) = 0 }
                       ELSE PlotPoints }

\* fewer samples than the buffer holds vertices
RenderStores == UNION { Plots(n) : n \in 0..(capacity - 1) }

\* the curve far in front of the camera, close to it, close to it and off
\* to the right of the view volume, and far and turned from the x axis to
\* the z axis; the last at a distance that is no single-precision number
Modelviews ==
    { [linear |-> << <<1, 0, 0>>, <<0, 1, 0>>, <<0, 0, 1>> >>,
       translation |-> <<0, 0, -50>>, fraction |-> <<0, 0, 0>>],
      [linear |-> << <<1, 0, 0>>, <<0, 1, 0>>, <<0, 0, 1>> >>,
       translation |-> <<0, 0, -2>>, fraction |-> <<0, 0, 0>>],
      [linear |-> << <<1, 0, 0>>, <<0, 1, 0>>, <<0, 0, 1>> >>,
       translation |-> <<8, 0, -2>>, fraction |-> <<0, 0, 0>>],
      [linear |-> << <<0, 0, -1>>, <<0, 1, 0>>, <<1, 0, 0>> >>,
       translation |-> <<0, 0, -50>>, fraction |-> <<0, 0, -1>>] }

\* startTime and endTime: the sample times, the times between them, and one
\* before and after
RenderTimes == -1..(2 * (capacity - 2) + 1)

\* the whole curve, and ranges that are empty, short and reversed
TimeRanges ==
    { times \in RenderTimes \X RenderTimes :
        \/ times[2] - times[1] \in {-2, 0, 1, 3}
        \/ times[1] = -1 /\ times[2] = 2 * (capacity - 2) + 1 }

\* fadeStartTime and fadeEndTime
FadeTimes == {0, 2, 4}

\* the arguments every render call takes
ViewArguments ==
    [modelview : Modelviews, nearZ : {-1}, farZ : {-52},
     planeNormals : { << <<4, 0, -3>>, <<-4, 0, -3>>, <<0, 4, -3>>, <<0, -4, -3>> >> },
     normalLength : {5},
     subdivisionThreshold : {1, 8},
     color : { <<1, 1, 1, 1>> },
     lineAsTriangles : BOOLEAN]

WithTimes(view, entry, startTime, endTime, fadeStartTime, fadeEndTime) ==
    [entry |-> entry, modelview |-> view.modelview, nearZ |-> view.nearZ,
     farZ |-> view.farZ, planeNormals |-> view.planeNormals,
     normalLength |-> view.normalLength,
     subdivisionThreshold |-> view.subdivisionThreshold, color |-> view.color,
     lineAsTriangles |-> view.lineAsTriangles,
     startTime |-> startTime, endTime |-> endTime,
     fadeStartTime |-> fadeStartTime, fadeEndTime |-> fadeEndTime]

\* the time ranges of the renderFaded calls
FadedRanges == { <<-1, 5>>, <<1, 3>>, <<3, 1>>, <<2, 2>>, <<4, 5>> }

\* the arguments of the render calls; among them a time-range render and a
\* renderFaded of the whole curve, far away and turned as in the last of
\* Modelviews, at a distance whose whole part is twice the bounding radius
\* of a segment
RenderArguments ==
    { WithTimes(view, "render", 0, 0, 0, 0) : view \in ViewArguments }
    \cup { WithTimes(view, "renderTimeRange", times[1], times[2], 0, 0) :
             view \in ViewArguments, times \in TimeRanges }
    \cup { WithTimes(view, "renderFaded", times[1], times[2], fades[1], fades[2]) :
             view \in { v \in ViewArguments : v.lineAsTriangles },
             times \in FadedRanges, fades \in FadeTimes \X FadeTimes }
    \cup { WithTimes(view, entry, -1, 5, 0, 4) :
             entry \in {"renderTimeRange", "renderFaded"},
             view \in [modelview : { [linear |-> << <<0, 0, -1>>, <<0, 1, 0>>,
                                                    <<1, 0, 0>> >>,
                                      translation |-> <<0, 0, -48>>,
                                      fraction |-> <<0, 0, -1>>] },
                       nearZ : {-1}, farZ : {-52},
                       planeNormals : { << <<4, 0, -3>>, <<-4, 0, -3>>,
                                           <<0, 4, -3>>, <<0, -4, -3>> >> },
                       normalLength : {5}, subdivisionThreshold : {1},
                       color : { <<1, 1, 1, 1>> }, lineAsTriangles : {TRUE}] }

RenderInit ==
    /\ m_samples \in RenderStores
    /\ call = NoCall
    /\ rendered \in [op : {"pending"}, args : RenderArguments]

\* what the render call that ran as rs did
Rendered(a, rs) ==
    /\ vbuf' = rs.vbuf
    /\ glDraws' = glDraws \o rs.draws
    /\ rendered' = [op |-> a.entry, args |-> a, crashed |-> FALSE,
                    before |-> vbuf, draws |-> rs.draws, reads |-> rs.reads,
                    calls |-> rs.calls, cubic |-> rs.cubic,
                    emitted |-> rs.emitted, culledFirst |-> rs.culledFirst,
                    depth |-> rs.depth, tooDeep |-> rs.tooDeep,
                    pieces |-> rs.pieces, points |-> rs.points]

\* the read of m_samples[0] of an empty deque is undefined: it ends the
\* program, or yields some value the call goes on with (and never uses)
Crashed(a) ==
    /\ UNCHANGED <<vbuf, glDraws>>
    /\ rendered' = [op |-> a.entry, args |-> a, crashed |-> TRUE,
                    before |-> vbuf, draws |-> <<>>, reads |-> <<0>>,
                    calls |-> <<>>, cubic |-> <<>>, emitted |-> <<>>,
                    culledFirst |-> FALSE, depth |-> 0, tooDeep |-> FALSE,
                    pieces |-> <<>>, points |-> <<>>]

Render ==
    /\ rendered.op = "pending"
    /\ rendered.args.entry = "render"
    /\ \/ \E rs \in { render(vbuf, rendered.args, m_samples) } :
              Rendered(rendered.args, rs)
       \/ m_samples = <<>> /\ Crashed(rendered.args)

RenderTimeRange ==
    /\ rendered.op = "pending"
    /\ rendered.args.entry = "renderTimeRange"
    /\ \E overload \in AbsOverloads :
          \E rs \in { renderTimeRange(overload, vbuf, rendered.args, m_samples) } :
             Rendered(rendered.args, rs)

RenderFaded ==
    /\ rendered.op = "pending"
    /\ rendered.args.entry = "renderFaded"
    /\ \E rs \in { renderFaded(vbuf, rendered.args, m_samples) } :
          Rendered(rendered.args, rs)

\* The render calls of several CurvePlot objects follow one another on the
\* one emitter, the global vbuf of line 575.  The calls of such a sequence:
\* the plot is empty or a curve that leaves the origin to the right, seen
\* from close by, in either layout and colour.
SharedCalls ==
    LET stores ==
            { samples \in RenderStores :
                \/ samples = <<>>
                \/ /\ Len(samples) = 3
                   /\ samples[2].position = <<2, 0, 0>>
                   /\ \A i \in 2..Len(samples) :
                         samples[i].position # samples[i - 1].position }
        views ==
            { view \in [modelview : Modelviews, nearZ : {-1}, farZ : {-52},
                        planeNormals : { << <<4, 0, -3>>, <<-4, 0, -3>>,
                                            <<0, 4, -3>>, <<0, -4, -3>> >> },
                        normalLength : {5}, subdivisionThreshold : {1},
                        color : Colors, lineAsTriangles : BOOLEAN] :
                view.modelview.translation = <<0, 0, -2>> }
        arguments ==
            { WithTimes(view, "render", 0, 0, 0, 0) : view \in views }
            \cup { WithTimes(view, "renderTimeRange", 1, 5, 0, 0) : view \in views }
            \cup { WithTimes(view, "renderFaded", -1, 5, 0, 4) :
                     view \in { v \in views : v.lineAsTriangles } }
    IN  [samples : stores, args : arguments]

SharedInit ==
    /\ call = NoCall
    /\ \E next \in SharedCalls :
          /\ m_samples = next.samples
          /\ rendered = [op |-> "pending", args |-> next.args]

\* The render call returned and another plot is rendered: the emitter stays
\* as the call left it, and the draw calls are counted from here.
NextPlot ==
    /\ rendered.op \notin {"none", "pending"}
    /\ ~rendered.crashed
    /\ \E next \in SharedCalls :
          /\ m_samples' = next.samples
          /\ rendered' = [op |-> "pending", args |-> next.args]
    /\ glDraws' = <<>>
    /\ UNCHANGED vbuf

(***************************************************************************)
(* The reference marks of axisarrow.cpp: an arrow along a direction, and   *)
(* the three axes of a body with their letters.  A render call is one      *)
(* step; what it asked of the renderer is kept in mark: the pipeline       *)
(* states it set, the shaders it requested and the draws it issued.        *)
(***************************************************************************)
\* no reference mark rendered yet
IdleMark == mark = NoCall

\* 1.0e-12, in the unit of the direction vectors, 1.0e-13
MinLength == 10

\* a test that skips the zero vector only
ZeroLength(v) == NormSq(v) = 0

\* v.norm() < 1.0e-12
Negligible(v) == NormSq(v) < MinLength * MinLength

\* The loop of SunDirectionArrow::getDirection over the centres of the
\* orbit frames, from the body's upwards: a centre that is a star is the
\* sun and ends the walk (its body() is null), a centre that is a body is
\* walked on from, any other centre ends the walk.
RECURSIVE FindSun(_)
FindSun(centers) ==
    IF centers = <<>> THEN NoCall
    ELSE IF Head(centers).kind = "star" THEN Head(centers)
    ELSE IF Head(centers).kind = "body" THEN FindSun(Tail(centers))
    ELSE NoCall

\* SunDirectionArrow::getDirection: the offset of the sun from the body, or
\* Vector3d::Zero() when no star was found
SunDirection(centers, bodyPosition) ==
    LET sun == FindSun(centers)
    IN  IF sun # NoCall THEN VSub(sun.position, bodyPosition) ELSE <<0, 0, 0>>

\* ArrowReferenceMark::getDirection, by the class of the arrow
getDirection(a) ==
    IF a.class = "SunDirectionArrow" THEN SunDirection(a.centers, a.bodyPosition)
    ELSE a.direction

\* Renderer::PipelineState ps as both render functions fill it in
PipelineState(opacity) ==
    [depthTest |-> TRUE, depthMask |-> opacity = 1, blending |-> opacity # 1,
     blendFunc |-> IF opacity # 1
                   THEN <<"GL_SRC_ALPHA", "GL_ONE_MINUS_SRC_ALPHA">>
                   ELSE <<>>]

\* a render call of a reference mark that has done nothing yet
MarkState == [pipeline |-> <<>>, shaders |-> <<>>, draws |-> <<>>]

\* renderer->setPipelineState(ps)
setPipelineState(ms, ps) == [ms EXCEPT !.pipeline = Append(@, ps)]

\* renderer->getShaderManager().getShader(props): the request is recorded
getShader(ms, props) == [ms EXCEPT !.shaders = Append(@, props)]

\* a shader manager that has every program
AnyShader(a, props) == TRUE

\* prog != nullptr: the manager has the program asked for
HasShader(a, props) == props \in a.programs

\* vo.draw(mode, count, first) on the vertex object vo
voDraw(ms, vo, mode, count, first) ==
    [ms EXCEPT !.draws = Append(@, [vo |-> vo, mode |-> mode, count |-> count,
                                    first |-> first])]

\* the sections of the arrow's circles
nSections == 30

\* the count initArrow returns: circle, annulus and head have 3 vertices a
\* section and 3 more, the shaft 6 a section and 3 more
ArrowVertexCount == 3 * (3 * nSections + 3) + (6 * nSections + 3)

\* RenderArrow(vo)
RenderArrow(ms) == voDraw(ms, "AxisArrow", "GL_TRIANGLES", ArrowVertexCount, 0)

\* RenderX, RenderY and RenderZ
RenderLetters(ms, lineAsTriangles) ==
    IF lineAsTriangles
    THEN voDraw(voDraw(voDraw(ms, "AxisLetter", "GL_TRIANGLES", 12, 0),
                   "AxisLetter", "GL_TRIANGLES", 18, 12),
                "AxisLetter", "GL_TRIANGLES", 18, 30)
    ELSE voDraw(voDraw(voDraw(ms, "AxisLetter", "GL_LINES", 4, 0),
                   "AxisLetter", "GL_LINES", 6, 4),
              "AxisLetter", "GL_LINES", 6, 10)

\* shadprop, and letterProp = shadprop with LineAsTriangles
ArrowShader == "VertexColors"
LetterShader == "VertexColors|LineAsTriangles"

\* ArrowReferenceMark::render
ArrowRender(a) ==
    IF Negligible(getDirection(a)) THEN MarkState
    ELSE LET requested == getShader(setPipelineState(MarkState,
                                                     PipelineState(a.opacity)),
                                    ArrowShader)
         IN  IF ~HasShader(a, ArrowShader) THEN requested
             ELSE RenderArrow(requested)

\* AxesReferenceMark::render
AxesRender(a) ==
    LET requested == getShader(setPipelineState(MarkState,
                                                PipelineState(a.opacity)),
                               ArrowShader)
        arrows == RenderArrow(RenderArrow(RenderArrow(requested)))
    IN  IF ~HasShader(a, ArrowShader) THEN requested
        ELSE IF a.lineAsTriangles
             THEN IF ~HasShader(a, LetterShader)
                  THEN getShader(arrows, LetterShader)
                  ELSE RenderLetters(getShader(arrows, LetterShader), TRUE)
             ELSE RenderLetters(arrows, FALSE)

\* the components of the direction vectors, in units of 1.0e-13
DirectionCoords == {0, 6, 8}

Directions == DirectionCoords \X DirectionCoords \X DirectionCoords

\* the centres above the body of a sun direction arrow: a star, a body and
\* then a star, and chains that end without a star
CenterChains ==
    { << [kind |-> "star", position |-> sun] >> : sun \in Directions }
    \cup { << [kind |-> "body", position |-> <<0, 0, 0>>],
              [kind |-> "star", position |-> sun] >> : sun \in Directions }
    \cup { << [kind |-> "none", position |-> <<0, 0, 0>>] >>,
           << [kind |-> "body", position |-> <<0, 0, 0>>],
              [kind |-> "none", position |-> <<0, 0, 0>>] >>,
           <<>> }

\* the programs the shader manager has
Programs == SUBSET {ArrowShader, LetterShader}

\* opacity 1.0f, and one below it (in halves)
Opacities == {1, 0}

\* the reference marks and the renderers they are drawn by
MarkArguments ==
    [class : {"VelocityVectorArrow"}, direction : Directions,
     centers : {<<>>}, bodyPosition : { <<0, 0, 0>> },
     opacity : Opacities, programs : Programs, lineAsTriangles : BOOLEAN]
    \cup [class : {"SunDirectionArrow"}, direction : { <<0, 0, 0>> },
          centers : CenterChains, bodyPosition : { <<0, 0, 0>>, <<0, 0, 8>> },
          opacity : Opacities, programs : Programs, lineAsTriangles : BOOLEAN]
    \cup [class : {"BodyAxisArrows"}, direction : { <<0, 0, 0>> },
          centers : {<<>>}, bodyPosition : { <<0, 0, 0>> },
          opacity : Opacities, programs : Programs, lineAsTriangles : BOOLEAN]

MarkInit == mark \in [op : {"pending"}, args : MarkArguments]

\* what the render call that ran as ms did
MarkRendered(op, ms) ==
    mark' = [op |-> op, args |-> mark.args, pipeline |-> ms.pipeline,
             shaders |-> ms.shaders, draws |-> ms.draws]

RenderArrowMark ==
    /\ mark.op = "pending"
    /\ mark.args.class \in {"VelocityVectorArrow", "SunDirectionArrow"}
    /\ MarkRendered("ArrowReferenceMark::render", ArrowRender(mark.args))

RenderAxesMark ==
    /\ mark.op = "pending"
    /\ mark.args.class = "BodyAxisArrows"
    /\ MarkRendered("AxesReferenceMark::render", AxesRender(mark.args))

(***************************************************************************)
(* The specifications.  Each part is checked on its own: outside a render  *)
(* call the store, the frustum test and the emitter share no state.        *)
(***************************************************************************)
StoreSpecInit == StoreInit /\ IdleFrustum /\ EmitterInit /\ IdleRender /\ IdleMark

StoreSpecNext ==
    \/ AddSample /\ UNCHANGED <<frustumVars, emitterVars, renderVars, markVars>>
    \/ RemoveSamplesBefore /\ UNCHANGED <<frustumVars, emitterVars, renderVars, markVars>>
    \/ RemoveSamplesAfter /\ UNCHANGED <<frustumVars, emitterVars, renderVars, markVars>>

SpecStore == StoreSpecInit /\ [][StoreSpecNext]_vars

FrustumSpecInit == FrustumInit /\ StoreInit /\ EmitterInit /\ IdleRender /\ IdleMark

FrustumSpecNext ==
    \/ CullSphere3 /\ UNCHANGED <<viewFrustum, storeVars, emitterVars, renderVars, markVars>>
    \/ CullSphere4 /\ UNCHANGED <<viewFrustum, storeVars, emitterVars, renderVars, markVars>>

SpecFrustum == FrustumSpecInit /\ [][FrustumSpecNext]_vars

\* The emitter as a render call of CurvePlot drives it: setup, setColor, then
\* strips (begin, vertex ..., end), then flush.
StripSpecInit == EmitterInit /\ StoreInit /\ IdleFrustum /\ IdleRender /\ IdleMark

StripSpecNext ==
    \/ strip.op = "none" /\ Setup /\ UNCHANGED <<storeVars, frustumVars, renderVars, markVars>>
    \/ strip.op = "setup" /\ SetColor /\ UNCHANGED <<storeVars, frustumVars, renderVars, markVars>>
    \/ strip.op \in {"setColor", "end"} /\ Begin
          /\ UNCHANGED <<storeVars, frustumVars, renderVars, markVars>>
    \/ strip.op \in {"begin", "vertex"} /\ strip.calls < MaxCalls /\ Vertex
          /\ UNCHANGED <<storeVars, frustumVars, renderVars, markVars>>
    \/ strip.op \in {"begin", "vertex"} /\ End
          /\ UNCHANGED <<storeVars, frustumVars, renderVars, markVars>>
    \/ strip.op \in {"setColor", "end"} /\ Flush
          /\ UNCHANGED <<storeVars, frustumVars, renderVars, markVars>>

SpecStrip == StripSpecInit /\ [][StripSpecNext]_vars

\* The emitter under any sequence of setup, begin, vertex, end and flush calls
CallsSpecInit == EmitterInit /\ StoreInit /\ IdleFrustum /\ IdleRender /\ IdleMark

CallsSpecNext ==
    \/ Setup /\ UNCHANGED <<storeVars, frustumVars, renderVars, markVars>>
    \/ Begin /\ UNCHANGED <<storeVars, frustumVars, renderVars, markVars>>
    \/ strip.calls < MaxCalls /\ AnyVertex
          /\ UNCHANGED <<storeVars, frustumVars, renderVars, markVars>>
    \/ End /\ UNCHANGED <<storeVars, frustumVars, renderVars, markVars>>
    \/ Flush /\ UNCHANGED <<storeVars, frustumVars, renderVars, markVars>>

SpecCalls == CallsSpecInit /\ [][CallsSpecNext]_vars

\* flush(), and flush() again, on a buffer with several strips
FlushSpecInit == FlushInit /\ StoreInit /\ IdleFrustum /\ IdleRender /\ IdleMark

FlushSpecNext ==
    \/ Flush /\ UNCHANGED <<storeVars, frustumVars, renderVars, markVars>>

SpecFlush == FlushSpecInit /\ [][FlushSpecNext]_vars

RenderSpecInit == RenderInit /\ IdleFrustum /\ EmitterInit /\ IdleMark

RenderSpecNext ==
    \/ Render /\ UNCHANGED <<m_samples, call, frustumVars, strip, markVars>>
    \/ RenderTimeRange /\ UNCHANGED <<m_samples, call, frustumVars, strip, markVars>>
    \/ RenderFaded /\ UNCHANGED <<m_samples, call, frustumVars, strip, markVars>>

SpecRender == RenderSpecInit /\ [][RenderSpecNext]_vars

\* Render calls one after another on the shared emitter
SharedSpecInit == SharedInit /\ IdleFrustum /\ EmitterInit /\ IdleMark

SharedSpecNext ==
    \/ Render /\ UNCHANGED <<m_samples, call, frustumVars, strip, markVars>>
    \/ RenderTimeRange /\ UNCHANGED <<m_samples, call, frustumVars, strip, markVars>>
    \/ RenderFaded /\ UNCHANGED <<m_samples, call, frustumVars, strip, markVars>>
    \/ NextPlot /\ UNCHANGED <<call, frustumVars, strip, markVars>>

SpecShared == SharedSpecInit /\ [][SharedSpecNext]_vars

MarkSpecInit == MarkInit /\ StoreInit /\ IdleFrustum /\ EmitterInit /\ IdleRender

MarkSpecNext ==
    \/ RenderArrowMark
          /\ UNCHANGED <<storeVars, frustumVars, emitterVars, renderVars>>
    \/ RenderAxesMark
          /\ UNCHANGED <<storeVars, frustumVars, emitterVars, renderVars>>

SpecMark == MarkSpecInit /\ [][MarkSpecNext]_vars

(***************************************************************************)
(* Properties of the sample store, checked under SpecStore.                *)
(***************************************************************************)
Resolution == 4     \* a segment is sampled at t = k / Resolution, k = 0..Resolution

SameSample(a, b) ==
    a.t = b.t /\ a.position = b.position /\ a.velocity = b.velocity

Added == call.op = "addSample"

\* the time of the added sample is strictly between the first and the last
StrictlyInside(samples, sample) ==
    /\ samples # <<>>
    /\ Less(samples[1].t, sample.t)
    /\ Less(sample.t, samples[Len(samples)].t)

\* C1: after any sequence of addSample, removeSamplesBefore and
\* removeSamplesAfter calls the stored samples are in strictly increasing time
\* order from front to back.
C1_StrictlyIncreasing ==
    \A i \in 1..(Len(m_samples) - 1) : Less(m_samples[i].t, m_samples[i + 1].t)

\* a store of three samples, the last call an addSample that extended it
C1_Witness ==
    /\ Added
    /\ Len(call.pre) = 2
    /\ Len(m_samples) = 3

\* C2: addSample with a time strictly between the first and the last stored
\* time changes nothing: size, order, content and every boundingRadius are as
\* before.
C2_InsideIsNoOp ==
    (Added /\ StrictlyInside(call.pre, call.sample)) => m_samples = call.pre

C2_Witness ==
    /\ Added
    /\ StrictlyInside(call.pre, call.sample)
    /\ \A i \in 1..Len(call.pre) : ~SameSample(call.pre[i], call.sample)

LessEq(a, b) == a # NaN /\ b # NaN /\ a <= b

\* removeSamplesAfter(t2) was called right after removeSamplesBefore(t)
BeforeThenAfter ==
    /\ call.op = "removeSamplesAfter"
    /\ call.before.op = "removeSamplesBefore"

\* C4: for t <= t2, after removeSamplesBefore(t) followed by
\* removeSamplesAfter(t2) no remaining sample has time < t or time > t2.
C4_PrunedToRange ==
    (BeforeThenAfter /\ LessEq(call.before.t, call.t)) =>
        \A i \in 1..Len(m_samples) :
            /\ ~Less(m_samples[i].t, call.before.t)
            /\ ~Greater(m_samples[i].t, call.t)

\* both calls removed a sample and one is left
C4_Witness ==
    /\ BeforeThenAfter
    /\ LessEq(call.before.t, call.t)
    /\ call.before.removed >= 1
    /\ Len(call.pre) > Len(m_samples)
    /\ Len(m_samples) >= 1

\* the store before the call with the sample put at its end, radii untouched
Inserted ==
    IF AddToBack(call.pre, call.sample) THEN PushBack(call.pre, call.sample)
    ELSE IF AddToFront(call.pre, call.sample) THEN PushFront(call.pre, call.sample)
    ELSE call.pre

\* the indices (from 1) whose stored radius the last addSample changed
RadiusChanged ==
    { i \in 1..Len(m_samples) :
        m_samples[i].boundingRadius # Inserted[i].boundingRadius }

\* C5: for every index i >= 1 (from 0) the stored boundingRadius of sample i
\* is the radius computed from the adjacent pair (i-1, i), and an addSample
\* changes the stored radius of at most the one newly formed pair.
C5_RadiusOfAdjacentPair ==
    /\ \A i \in 2..Len(m_samples) :
          m_samples[i].boundingRadius =
              SegmentBoundingRadius(m_samples[i - 1], m_samples[i])
    /\ Added =>
          /\ Len(m_samples) = Len(Inserted)
          /\ RadiusChanged \subseteq
                (IF AddToBack(call.pre, call.sample) THEN {Len(m_samples)} ELSE {2})

\* a sample added at the front of a store of two, whose new pair has a radius
C5_Witness ==
    /\ Added
    /\ Len(call.pre) = 2
    /\ AddToFront(call.pre, call.sample)
    /\ RadiusChanged = {2}

\* Resolution^3 times (H(k / Resolution) - a.position), where H is the cubic
\* Hermite curve from sample a to sample b in the Hermite basis:
\*   H(t) = (2t^3 - 3t^2 + 1) p0 + (t^3 - 2t^2 + t) m0
\*        + (-2t^3 + 3t^2) p1 + (t^3 - t^2) m1,   m = velocity * dt.
HermiteOffset(a, b, k) ==
    LET n == Resolution
        dt == b.t - a.t
        h00 == 2 * k * k * k - 3 * k * k * n
        h10 == k * k * k - 2 * k * k * n + k * n * n
        h01 == 3 * k * k * n - 2 * k * k * k
        h11 == k * k * k - k * k * n
    IN  VAdd(VAdd(VScale(h00, a.position), VScale(h10 * dt, a.velocity)),
             VAdd(VScale(h01, b.position), VScale(h11 * dt, b.velocity)))

Resolution6 == Resolution * Resolution * Resolution * Resolution * Resolution * Resolution

\* C6: for every pair of adjacent samples the stored bounding radius is >= the
\* distance from the segment's start point to the Hermite curve point at every
\* local parameter t = k / Resolution in [0, 1] (compared as squares).
C6_RadiusBoundsCurve ==
    \A i \in 2..Len(m_samples) : \A k \in 0..Resolution :
        NormSq(HermiteOffset(m_samples[i - 1], m_samples[i], k))
            <= Resolution6 * m_samples[i].boundingRadius

\* a segment whose curve leaves its start point, and whose coefficients have
\* both signs in one row
C6_Witness ==
    \E i \in 2..Len(m_samples) :
        /\ \E k \in 1..Resolution :
              NormSq(HermiteOffset(m_samples[i - 1], m_samples[i], k)) > 0
        /\ LET a == m_samples[i - 1]
               b == m_samples[i]
               coeff == cubicHermiteCoefficients(
                            zeroExtend(a.position), zeroExtend(b.position),
                            zeroExtend(VScale(b.t - a.t, a.velocity)),
                            zeroExtend(VScale(b.t - a.t, b.velocity)))
           IN  \E row \in 1..3 : \E c, d \in 2..4 :
                   coeff[c][row] < 0 /\ coeff[d][row] > 0

(***************************************************************************)
(* Properties of the frustum test, checked under SpecFrustum.              *)
(***************************************************************************)
\* q is in the view volume: between the near and the far plane and on the
\* inner side of the four side planes
InViewVolume(f, q) ==
    /\ q[3] <= f.m_nearZ
    /\ q[3] >= f.m_farZ
    /\ \A i \in 1..4 : Dot(zeroExtend(q), f.m_planeNormals[i]) >= 0

\* q is a point of the sphere
InSphere(center, radius, q) ==
    NormSq(VSub(q, <<center[1], center[2], center[3]>>)) <= radius * radius

SphereMeetsVolume ==
    \E q \in Centers :
        InSphere(culled.center, culled.radius, q) /\ InViewVolume(viewFrustum, q)

\* C7: cullSphere is conservative: if some point of the sphere lies inside the
\* view volume, cullSphere returns false.
C7_CullIsConservative ==
    (culled.op = "cullSphere" /\ SphereMeetsVolume) => ~culled.result

\* a sphere that reaches into the view volume from a centre outside it
C7_Witness ==
    /\ culled.op = "cullSphere"
    /\ SphereMeetsVolume
    /\ ~InViewVolume(viewFrustum,
                     <<culled.center[1], culled.center[2], culled.center[3]>>)
    /\ ~culled.result

\* cullSphere does cull: a sphere outside the view volume, reported so
C7_SomeSphereIsCulled ==
    /\ culled.op = "cullSphere"
    /\ ~SphereMeetsVolume
    /\ culled.result

(***************************************************************************)
(* Properties of the vertex emitter, checked under SpecStrip.              *)
(***************************************************************************)
\* the position attribute of a vertex: 3 floats (line 175)
VertexCoord(v) == SubSeq(v.position, 1, 3)

\* the positions of the logical vertices of one draw call: with triangles
\* every logical vertex is read twice
StripPositions(draw) ==
    IF draw.mode = "GL_TRIANGLE_STRIP"
    THEN [j \in 1..(draw.count \div 2) |-> VertexCoord(draw.vertices[2 * j - 1])]
    ELSE [j \in 1..draw.count |-> VertexCoord(draw.vertices[j])]

\* the strips submitted for the strip begun last, oldest first
Pieces ==
    [k \in 1..(Len(glDraws) - strip.mark) |->
        StripPositions(glDraws[strip.mark + k])]

RECURSIVE Concat(_)
Concat(pieces) ==
    IF pieces = <<>> THEN <<>> ELSE Head(pieces) \o Concat(Tail(pieces))

\* the pieces joined at their seams: the first position of every piece after
\* the first is dropped
RECURSIVE Join(_)
Join(pieces) ==
    IF pieces = <<>> THEN <<>>
    ELSE Head(pieces) \o Concat([k \in 1..(Len(pieces) - 1) |-> Tail(pieces[k + 1])])

\* every piece after the first begins with the position that ended the one
\* before it
Continuous(pieces) ==
    \A k \in 2..Len(pieces) :
        pieces[k][1] = pieces[k - 1][Len(pieces[k - 1])]

\* x, y and z of the input positions
InputPositions == [k \in 1..Len(strip.input) |-> SubSeq(strip.input[k], 1, 3)]

\* the same converted to single precision
InputAsFloat == [k \in 1..Len(InputPositions) |-> castFloat3(InputPositions[k])]

\* C8 as stated: for any number of vertex() calls inside one open strip,
\* followed by end() and flush(), every input position appears in the
\* submitted strips in input order, and every submitted strip after the first
\* begins with the position that ended the strip submitted before it.
C8_Original ==
    strip.phase = "flushed" =>
        /\ Join(Pieces) = InputPositions
        /\ Continuous(Pieces)

\* C8 amended: the same for two or more vertex() calls, the input positions
\* converted to single precision.  (A strip of one vertex is abandoned by
\* end() and never submitted.)
C8_NoVertexLost ==
    (strip.phase = "flushed" /\ Len(strip.input) >= 2) =>
        /\ Join(Pieces) = InputAsFloat
        /\ Continuous(Pieces)

\* a strip that was submitted in two pieces, with both input positions in it
C8_Witness ==
    /\ strip.phase = "flushed"
    /\ Len(Pieces) = 2
    /\ \A v \in VertexPositions : \E k \in 1..Len(strip.input) : strip.input[k] = v

\* the last call was a vertex() of the open strip that flushed the full
\* buffer, the second of that strip to do so
SecondAutomaticFlush ==
    /\ strip.phase = "open"
    /\ strip.op = "vertex"
    /\ UInt(strip.pre.currentPosition + 1) = capacity
    /\ strip.flushes = 2

\* C9 as stated: after a single strip's vertex() calls have triggered two
\* automatic flushes, the concatenation of the positions submitted in the two
\* buffer generations equals the sequence of input positions.
C9_Original ==
    SecondAutomaticFlush => Concat(Pieces) = InputPositions

\* C9 amended: the positions submitted in the two buffer generations, the
\* first position of the second generation dropped (it repeats the last
\* position of the first), equal the input positions converted to single
\* precision.
C9_JoinedGenerations ==
    SecondAutomaticFlush =>
        /\ Join(Pieces) = InputAsFloat
        /\ Continuous(Pieces)

\* a strip begun in the empty buffer that filled it twice
C9_Witness ==
    /\ SecondAutomaticFlush
    /\ Len(Pieces) = 2
    /\ Len(strip.input) = 2 * capacity - 1
    /\ Len(Pieces[1]) = capacity
    /\ Len(Pieces[2]) = capacity

\* C10: end() on a strip of fewer than 2 vertices discards it: the write
\* cursor returns to its value at the start of that strip and no length is
\* recorded; every strip length recorded and every strip submitted for drawing
\* is >= 2.
C10_ShortStripDiscarded ==
    /\ (strip.op = "end" /\ strip.pre.currentStripLength < 2) =>
          /\ vbuf.currentPosition = strip.pre.start
          /\ vbuf.stripLengths = strip.pre.stripLengths
          /\ vbuf.currentStripLength = 0
    /\ \A k \in 1..Len(vbuf.stripLengths) : vbuf.stripLengths[k] >= 2
    /\ \A k \in 1..Len(glDraws) : Len(StripPositions(glDraws[k])) >= 2

\* a strip of one vertex is discarded
C10_Witness ==
    /\ strip.op = "end"
    /\ Len(strip.input) = 1
    /\ strip.pre.currentStripLength = 1
    /\ strip.pre.currentPosition = strip.pre.start + 1
    /\ vbuf.currentPosition = strip.pre.start

\* the last call was end() on a strip of two or more vertices
EndedStrip == strip.op = "end" /\ strip.pre.currentStripLength >= 2

\* the length of the strip ended last is recorded, the extra slot not counted:
\* it is the last of stripLengths, or, when end() flushed the full buffer, the
\* vertex count of the last draw call
LengthRecorded ==
    IF vbuf.currentPosition = 0
    THEN /\ glDraws # <<>>
         /\ Len(StripPositions(glDraws[Len(glDraws)])) = strip.pre.currentStripLength
    ELSE /\ vbuf.currentPosition = strip.pre.currentPosition + 1
         /\ vbuf.stripLengths =
                Append(strip.pre.stripLengths, strip.pre.currentStripLength)

\* C11 as stated: end() on a strip of length >= 2 appends one extra slot whose
\* position is a copy of the strip's last point, and records the strip's
\* length (not counting the extra slot).
C11_Original ==
    EndedStrip =>
        LET index == strip.pre.currentPosition * 2
        IN  /\ vbuf.data[index].position = vbuf.data[index - 2].position
            /\ vbuf.data[index + 1].position = vbuf.data[index - 1].position
            /\ LengthRecorded

\* C11 amended: the extra slot's position is a copy of the strip's
\* second-to-last point; the strip's length is recorded, the extra slot not
\* counted.
C11_ExtraSlotRepeatsSecondToLast ==
    EndedStrip =>
        LET index == strip.pre.currentPosition * 2
        IN  /\ vbuf.data[index].position = vbuf.data[index - 4].position
            /\ vbuf.data[index + 1].position = vbuf.data[index - 3].position
            /\ LengthRecorded

\* a strip whose last two points differ was ended
C11_Witness ==
    /\ EndedStrip
    /\ LET index == strip.pre.currentPosition * 2
       IN  VertexCoord(vbuf.data[index - 2]) # VertexCoord(vbuf.data[index - 4])

(***************************************************************************)
(* Properties of the render calls, checked under SpecRender.               *)
(***************************************************************************)
\* a render call has run
RenderDone == rendered.op \in {"render", "renderTimeRange", "renderFaded"}

\* a render call over a time range has run
RangeRenderDone == rendered.op \in {"renderTimeRange", "renderFaded"}

\* the call came back, read no sample, called no operation of the emitter
\* and submitted no draw
RenderNoOp ==
    /\ ~rendered.crashed
    /\ rendered.reads = <<>>
    /\ rendered.calls = <<>>
    /\ rendered.draws = <<>>

\* C12: with an empty sample store each of the three render entry points
\* returns without reading a sample, without an emitter operation and without
\* a draw submission.  The full-range render has no test for an empty store:
\* it reads m_samples[0] and goes through setup, setColor, flush and finish.
C12_EmptyStoreNoOp == (RenderDone /\ m_samples = <<>>) => RenderNoOp

\* the range asked for lies entirely outside the stored range
OutsideStoredRange ==
    /\ m_samples # <<>>
    /\ \/ rendered.args.endTime <= m_samples[1].t
       \/ rendered.args.startTime >= m_samples[Len(m_samples)].t

\* C13: the time-range render and renderFaded, called with a range entirely
\* outside the stored range, return before setup(): no operation of the
\* emitter is called, the emitter state is as it was and no draw is submitted.
C13_OutsideRangeReturnsBeforeSetup ==
    (RangeRenderDone /\ OutsideStoredRange) =>
        /\ ~rendered.crashed
        /\ rendered.calls = <<>>
        /\ vbuf = rendered.before
        /\ rendered.draws = <<>>
        /\ glDraws = <<>>

\* renderFaded has returned for a range that starts at the last sample of a
\* store of three
C13_Witness ==
    /\ rendered.op = "renderFaded"
    /\ Len(m_samples) = 3
    /\ rendered.args.startTime >= m_samples[3].t
    /\ rendered.args.endTime > m_samples[1].t
    /\ rendered.calls = <<>>

\* C14: a time-range render or renderFaded called with startTime = endTime
\* submits no draw, whatever the store and the time, a time strictly inside
\* the stored range included.  Inside the range the code hands t0 = t1 to
\* renderCubic, which emits a strip of nine equal points that is drawn.
C14_EqualTimesNoDraw ==
    (RangeRenderDone /\ rendered.args.startTime = rendered.args.endTime) =>
        rendered.draws = <<>> /\ glDraws = <<>>

\* C15: in the time-range render and renderFaded, whatever startTime and
\* endTime are, the parameter range (t0, t1) handed to the cubic subdivision
\* of a segment satisfies 0 <= t0 <= 1 and 0 <= t1 <= 1.  (t0 = t0n / q and
\* t1 = t1n / q.)  The code clamps t0 only: with endTime before startTime t1
\* is negative.
C15_ParametersWithinSegment ==
    RangeRenderDone =>
        \A k \in 1..Len(rendered.cubic) :
            /\ 0 <= rendered.cubic[k].t0n /\ rendered.cubic[k].t0n <= rendered.cubic[k].q
            /\ 0 <= rendered.cubic[k].t1n /\ rendered.cubic[k].t1n <= rendered.cubic[k].q

\* the segment that ends at sample i (from 0) takes the straight-line path of
\* the full-range render and is not culled against the far plane
StraightLineSegment(a, samples, i) ==
    LET p0 == CameraSpace(a.modelview, samples[i].position, 1)
        curveBoundingRadius == BoundingRadius(samples[i + 1])
    IN  /\ curveBoundingRadius
               < a.subdivisionThreshold * (Abs(p0[3]) - curveBoundingRadius)
        /\ p0[3] + curveBoundingRadius >= Unit * a.farZ

\* a full-range render of 2 <= N < capacity samples in which every segment
\* is drawn as a straight line
StraightLineRender ==
    /\ rendered.op = "render"
    /\ ~rendered.crashed
    /\ 2 <= Len(m_samples) /\ Len(m_samples) < capacity
    /\ \A i \in 1..(Len(m_samples) - 1) :
            StraightLineSegment(rendered.args, m_samples, i)

\* x, y and z of the samples in camera space, in sample order
TransformedPositions ==
    [k \in 1..Len(m_samples) |->
        SubSeq(CameraSpace(rendered.args.modelview, m_samples[k].position, 1), 1, 3)]

\* C16 as stated: in a full-range render of N samples (2 <= N < capacity)
\* whose segments all take the straight-line path, none culled against the
\* far plane, exactly one strip is submitted, of exactly N vertices equal to
\* the transformed sample positions in sample order.
C16_Original ==
    StraightLineRender =>
        /\ Len(rendered.draws) = 1
        /\ StripPositions(rendered.draws[1]) = TransformedPositions

\* C16: ... exactly one strip is submitted, of exactly N vertices equal to
\* the transformed sample positions converted to single precision, in sample
\* order.
C16_OneStripOfSamples ==
    StraightLineRender =>
        /\ Len(rendered.draws) = 1
        /\ StripPositions(rendered.draws[1])
               = [k \in 1..Len(m_samples) |-> castFloat3(TransformedPositions[k])]

\* three samples drawn as one strip, from a distance that single precision
\* rounds
C16_Witness ==
    /\ StraightLineRender
    /\ Len(m_samples) = 3
    /\ rendered.args.modelview.fraction # <<0, 0, 0>>
    /\ Len(rendered.draws) = 1
    /\ rendered.draws[1].count = IF rendered.args.lineAsTriangles THEN 6 ELSE 3

\* The cubic Hermite curve from p0 to p1 with the tangents m0 and m1, at the
\* parameter n / q, by its basis functions.
Hermite(p0, p1, m0, m1, n, q) ==
    LET h00 == 2 * n * n * n - 3 * n * n * q + q * q * q
        h10 == n * n * n - 2 * n * n * q + n * q * q
        h01 == 3 * n * n * q - 2 * n * n * n
        h11 == n * n * n - n * n * q
    IN  [row \in 1..4 |->
            (h00 * p0[row] + h10 * m0[row] + h01 * p1[row] + h11 * m1[row])
                \div (q * q * q)]

\* the index (from 1) of the sample at time t
SampleAt(t) == CHOOSE k \in 1..Len(m_samples) : m_samples[k].t = t

\* the point the time-range render has to start from: the Hermite curve of
\* the first segment handed to renderCubic, at t0 = clamp((startTime - t_prev)
\* / (t_next - t_prev), 0, 1)
StartPoint ==
    LET a == rendered.args
        k == SampleAt(rendered.cubic[1].segment.t)
        dt == m_samples[k + 1].t - m_samples[k].t
        t0n == IF a.startTime < m_samples[k].t THEN 0
               ELSE IF a.startTime > m_samples[k + 1].t THEN dt
               ELSE a.startTime - m_samples[k].t
    IN  Hermite(CameraSpace(a.modelview, m_samples[k].position, 1),
                CameraSpace(a.modelview, m_samples[k + 1].position, 1),
                VScale(dt, CameraSpace(a.modelview, m_samples[k].velocity, 0)),
                VScale(dt, CameraSpace(a.modelview, m_samples[k + 1].velocity, 0)),
                t0n, dt)

\* the time-range render handed a segment to renderCubic and emitted a vertex
StartRendered ==
    /\ rendered.op = "renderTimeRange"
    /\ rendered.cubic # <<>>
    /\ rendered.emitted # <<>>

\* C17 as stated: in the time-range render, when the first rendered segment
\* is not culled, the first vertex emitted is the segment's Hermite curve at
\* t0 = clamp((startTime - t_prev) / (t_next - t_prev), 0, 1).
C17_Original == StartRendered => rendered.emitted[1].position = StartPoint

\* C17: ... when the first rendered segment is not culled and no piece of a
\* cubic is culled before the first vertex is emitted, the first vertex
\* emitted is the segment's Hermite curve at t0.
C17_FirstVertexAtStartTime ==
    (StartRendered /\ ~rendered.culledFirst) =>
        rendered.emitted[1].position = StartPoint

\* samples at 0, 2 and 4, startTime = 1: the first vertex is the point at
\* the local parameter 1/2 of the segment between sample 0 and sample 1
C17_Witness ==
    /\ StartRendered
    /\ ~rendered.culledFirst
    /\ Len(m_samples) = 3
    /\ rendered.args.startTime = 1
    /\ rendered.cubic[1].segment.t = 0
    /\ rendered.cubic[1].t0n = 1 /\ rendered.cubic[1].q = 2
    /\ rendered.emitted[1].position =
           CurvePoint(cubicHermiteCoefficients(
                          CameraSpace(rendered.args.modelview, m_samples[1].position, 1),
                          CameraSpace(rendered.args.modelview, m_samples[2].position, 1),
                          VScale(2, CameraSpace(rendered.args.modelview,
                                                m_samples[1].velocity, 0)),
                          VScale(2, CameraSpace(rendered.args.modelview,
                                                m_samples[2].velocity, 0))),
                      1, 2)

\* the opacity multipliers of the emitted vertices lie in [0, 1]
OpacitiesInUnitInterval ==
    \A k \in 1..Len(rendered.emitted) :
        0 <= rendered.emitted[k].opacity /\ rendered.emitted[k].opacity <= Unit

\* along the emitted vertices ordered by curve time the opacity multiplier
\* does not decrease (sign = 1) or does not increase (sign = -1)
OpacityMonotone(sign) ==
    \A j, k \in 1..Len(rendered.emitted) :
        rendered.emitted[j].time <= rendered.emitted[k].time =>
            sign * rendered.emitted[j].opacity <= sign * rendered.emitted[k].opacity

\* C18: in renderFaded every emitted vertex carries an opacity multiplier in
\* [0, 1], and along the emitted vertices ordered by curve time the
\* multiplier is non-decreasing when fadeEndTime > fadeStartTime and
\* non-increasing when fadeEndTime < fadeStartTime, on the straight-line path
\* and on the cubic path.  With fadeEndTime = fadeStartTime the code divides
\* by zero and a vertex at that time gets 0 * infinity, which is no number.
C18_OpacityBoundedAndMonotone ==
    rendered.op = "renderFaded" =>
        /\ OpacitiesInUnitInterval
        /\ rendered.args.fadeEndTime > rendered.args.fadeStartTime
               => OpacityMonotone(1)
        /\ rendered.args.fadeEndTime < rendered.args.fadeStartTime
               => OpacityMonotone(-1)

\* C19: in renderFaded the curve is at full opacity (multiplier 1) at
\* fadeStartTime and completely transparent (multiplier 0) at fadeEndTime:
\* points before fadeStartTime are drawn with full opacity and points after
\* fadeEndTime get the multiplier 0.  The code computes the multiplier as
\* (t - fadeStartTime) / (fadeEndTime - fadeStartTime), clamped: 0 at
\* fadeStartTime and 1 at fadeEndTime.
C19_FullOpacityAtFadeStart ==
    (rendered.op = "renderFaded"
        /\ rendered.args.fadeStartTime # rendered.args.fadeEndTime) =>
        \A k \in 1..Len(rendered.emitted) :
            LET v == rendered.emitted[k]
                fadeStart == Unit * rendered.args.fadeStartTime
                fadeEnd == Unit * rendered.args.fadeEndTime
            IN  /\ v.time = fadeStart => v.opacity = Unit
                /\ v.time = fadeEnd => v.opacity = 0
                /\ (fadeStart < fadeEnd /\ v.time < fadeStart) => v.opacity = Unit
                /\ (fadeStart < fadeEnd /\ v.time > fadeEnd) => v.opacity = 0

\* the smallest d with curveBoundingRadius / 8^d < limit
RECURSIVE DepthBound(_, _)
DepthBound(curveBoundingRadius, limit) ==
    IF curveBoundingRadius < limit THEN 0
    ELSE 1 + DepthBound(curveBoundingRadius, SubdivisionFactor * limit)

\* In every call of renderCubic or renderCubicFaded made by a render
\* function the recursion was followed to its end, and the number of nested
\* recursive calls (the depth argument, which starts at 1, less 1) is at most
\* the smallest d with curveBoundingRadius / 8^d
\* < subdivisionThreshold * (-nearZ); a call made by recursion has a depth
\* argument of at most that d.
SubdivisionDepthBounded ==
    /\ ~rendered.tooDeep
    /\ \A k \in 1..Len(rendered.cubic) :
          LET d == DepthBound(rendered.cubic[k].radius,
                              rendered.args.subdivisionThreshold
                                  * (-rendered.args.nearZ) * Unit)
          IN  /\ rendered.cubic[k].depth - 1 <= d
              /\ rendered.cubic[k].depth >= 2 => rendered.cubic[k].depth <= d

\* the render call came back: it returned early, or it went on to finish()
RanToCompletion ==
    /\ ~rendered.crashed
    /\ \/ rendered.calls = <<>>
       \/ rendered.calls[Len(rendered.calls)] = "finish"

\* C20: every render call runs to completion: for a finite store,
\* subdivisionThreshold > 0 and nearZ < 0 the recursive subdivision
\* terminates, with a recursion depth of at most the smallest d such that
\* curveBoundingRadius / 8^d < subdivisionThreshold * (-nearZ).  The
\* full-range render of an empty store reads m_samples[0] (C12) and need
\* not come back.
C20_RunsToCompletion ==
    RenderDone => RanToCompletion /\ SubdivisionDepthBounded

\* apart from the full-range render of an empty store every call comes back
\* within the depth bound
SubdivisionTerminates ==
    (RenderDone /\ ~rendered.crashed) => RanToCompletion /\ SubdivisionDepthBounded

\* a call that went two levels deep
DeepSubdivision ==
    /\ RenderDone
    /\ ~rendered.crashed
    /\ \E k \in 1..Len(rendered.cubic) : rendered.cubic[k].depth = 2

(***************************************************************************)
(* The reference marks.                                                    *)
(***************************************************************************)
\* a render call of a reference mark has returned
MarkDone == mark.op \in {"ArrowReferenceMark::render", "AxesReferenceMark::render"}

\* the call left the renderer alone: no pipeline state set, no shader
\* requested, no draw issued
MarkUntouched == mark.pipeline = <<>> /\ mark.shaders = <<>> /\ mark.draws = <<>>

\* the direction the arrow of the call was given, squared length
MarkLengthSq == NormSq(getDirection(mark.args))

\* C22: ArrowReferenceMark::render with a direction shorter than 1e-12, the
\* zero vector of a sun direction arrow without a star included, returns at
\* once: it sets no pipeline state, requests no shader and issues no draw.
C22_NegligibleDirectionSkipped ==
    (mark.op = "ArrowReferenceMark::render" /\ MarkLengthSq < MinLength * MinLength)
        => MarkUntouched

\* a direction that is short but not zero was skipped, and so was a sun
\* direction arrow whose chain of centres has no star
C22_Witness ==
    /\ mark.op = "ArrowReferenceMark::render"
    /\ MarkUntouched
    /\ \/ mark.args.class = "VelocityVectorArrow" /\ MarkLengthSq > 0
       \/ /\ mark.args.class = "SunDirectionArrow"
          /\ mark.args.centers # <<>>
          /\ FindSun(mark.args.centers) = NoCall

\* the render call got as far as its first shader lookup
FirstLookupReached ==
    /\ MarkDone
    /\ mark.op = "ArrowReferenceMark::render" => MarkLengthSq >= MinLength * MinLength

\* the first lookup returned no program
FirstLookupFailed == FirstLookupReached /\ ArrowShader \notin mark.args.programs

\* the second lookup, of AxesReferenceMark::render, returned no program
SecondLookupFailed ==
    /\ mark.op = "AxesReferenceMark::render"
    /\ ArrowShader \in mark.args.programs
    /\ mark.args.lineAsTriangles
    /\ LetterShader \notin mark.args.programs

\* the draw of one arrow
ArrowDraw == [vo |-> "AxisArrow", mode |-> "GL_TRIANGLES", count |-> ArrowVertexCount, first |-> 0]

\* C21 as stated: a lookup that returns no program, the first or the second,
\* leaves the object without a draw call.
C21_Original == (FirstLookupFailed \/ SecondLookupFailed) => mark.draws = <<>>

\* C21: when a shader lookup of a reference mark render returns no program
\* the call is aborted there and the lookup is not repeated: after the first
\* lookup failed no draw call was issued for the object; after the second
\* lookup of AxesReferenceMark::render failed the three arrows are drawn
\* already and no letter is drawn.
C21_MissingShaderAborts ==
    /\ FirstLookupFailed => mark.draws = <<>> /\ mark.shaders = <<ArrowShader>>
    /\ SecondLookupFailed =>
          /\ mark.draws = <<ArrowDraw, ArrowDraw, ArrowDraw>>
          /\ mark.shaders = <<ArrowShader, LetterShader>>

\* the second lookup failed after the arrows were drawn
C21_Witness == SecondLookupFailed /\ Len(mark.draws) = 3

(***************************************************************************)
(* The pieces of a render call: the segments and sub-segments it decided   *)
(* about, in the order it met them.                                        *)
(***************************************************************************)
\* a render call that ran (to its end, or until a level too deep for the
\* model) and recorded its pieces
PiecesRecorded == rendered.op \in {"render", "renderTimeRange", "renderFaded"} /\ ~rendered.crashed

\* the pieces of the call that were culled, by the frustum or, on the
\* straight-line path, by the far plane test
CulledPieces ==
    { k \in 1..Len(rendered.pieces) : rendered.pieces[k].path \in {"culled", "farCulled"} }

\* C23: whenever the renderer meets a culled segment or sub-segment, at the
\* top level or at any depth: with a strip open it calls end() exactly once
\* and sets restartCurve; with no strip open it calls nothing of the emitter
\* and restartCurve stays true.
C23_CulledPieceEndsStrip ==
    PiecesRecorded =>
        \A k \in CulledPieces :
            /\ rendered.pieces[k].restartAfter
            /\ rendered.pieces[k].calls =
                   IF rendered.pieces[k].restartBefore THEN <<>> ELSE <<"end">>

\* a call met a culled sub-segment with a strip open, and a culled piece
\* with none open
C23_Witness ==
    /\ PiecesRecorded
    /\ \E k \in CulledPieces :
          ~rendered.pieces[k].restartBefore /\ rendered.pieces[k].test.level >= 1
    /\ \E k \in CulledPieces : rendered.pieces[k].restartBefore

\* the pieces of the call that were accepted for direct drawing
DrawnPieces == { k \in 1..Len(rendered.pieces) : rendered.pieces[k].path = "drawn" }

\* C24: whenever a segment or sub-segment is accepted for direct drawing:
\* with restartCurve true the renderer calls begin(), emits the start point
\* of the piece (the previous evaluation point) and clears restartCurve; in
\* every case it then emits the end point: 2 vertices when the piece opens a
\* strip and exactly 1 otherwise.
C24_DrawnPieceEmitsEndPoint ==
    PiecesRecorded =>
        \A k \in DrawnPieces :
            LET piece == rendered.pieces[k]
            IN  /\ ~piece.restartAfter
                /\ piece.restartBefore =>
                      /\ piece.calls = <<"begin", "vertex", "vertex">>
                      /\ piece.vertices = <<piece.test.from, piece.test.to>>
                /\ ~piece.restartBefore =>
                      /\ piece.calls = <<"vertex">>
                      /\ piece.vertices = <<piece.test.to>>

\* a call drew a sub-segment that opened a strip and one that continued a
\* strip
C24_Witness ==
    /\ PiecesRecorded
    /\ \E k \in DrawnPieces :
          rendered.pieces[k].restartBefore /\ rendered.pieces[k].test.level >= 1
    /\ \E k \in DrawnPieces :
          ~rendered.pieces[k].restartBefore /\ rendered.pieces[k].test.level >= 1

\* the piece took the branch that subdivides (where it is first tested
\* against the frustum), not the straight-line branch
SubdivideBranch(piece) == piece.path \in {"subdivided", "culled"}

\* boundingRadius >= subdivisionThreshold * minDistance for
\* minDistance = max(-nearZ, |z| - boundingRadius), the threshold being a
\* positive integer
NearClampedRule(test) ==
    /\ test.radius \div test.threshold >= -test.nearZ
    /\ test.radius \div test.threshold >= Abs(test.z) - test.radius

\* the same for minDistance = |z| - boundingRadius
UnclampedRule(test) == test.radius \div test.threshold >= Abs(test.z) - test.radius

\* the overloads of abs that matter to the call: the time-range render alone
\* calls abs unqualified
BuildsOfCall ==
    IF rendered.args.entry = "renderTimeRange" THEN AbsOverloads ELSE {"double"}

\* the rule of the top level, where |z| is what the call of abs returns
TopLevelRule(overload, test) ==
    test.radius \div test.threshold >= abs(overload, test.z) - test.radius

\* C25 as stated: every piece, the segments of the top level included, is
\* subdivided if and only if boundingRadius >= subdivisionThreshold *
\* max(-nearZ, |z| - boundingRadius).
C25_Original ==
    PiecesRecorded =>
        \A k \in 1..Len(rendered.pieces) :
            SubdivideBranch(rendered.pieces[k]) <=> NearClampedRule(rendered.pieces[k].test)

\* C25: inside renderCubic and renderCubicFaded, at every depth, a
\* sub-segment is subdivided if and only if boundingRadius >=
\* subdivisionThreshold * max(-nearZ, |z| - boundingRadius), and drawn as a
\* straight line otherwise; the test of the top level takes minDistance =
\* |z| - boundingRadius without the near plane, |z| being what the call of
\* abs returns (in the time-range render the overload the build resolves the
\* unqualified abs to), and the first and the last segment of a time range
\* are subdivided whatever it says.
C25_SubdivisionRule ==
    PiecesRecorded =>
        /\ \A k \in 1..Len(rendered.pieces) :
              rendered.pieces[k].test.level >= 1 =>
                  (SubdivideBranch(rendered.pieces[k])
                       <=> NearClampedRule(rendered.pieces[k].test))
        /\ \E overload \in BuildsOfCall :
              \A k \in 1..Len(rendered.pieces) :
                  rendered.pieces[k].test.level = 0 =>
                      (SubdivideBranch(rendered.pieces[k])
                           <=> (TopLevelRule(overload, rendered.pieces[k].test)
                                   \/ rendered.pieces[k].test.forced))

\* a segment nearer than the near plane distance was subdivided at the top
\* level against the rule of the deeper levels, and inside renderCubic a
\* sub-segment was drawn by that rule
C25_Witness ==
    /\ PiecesRecorded
    /\ \E k \in 1..Len(rendered.pieces) :
          /\ rendered.pieces[k].test.level = 0
          /\ ~rendered.pieces[k].test.forced
          /\ SubdivideBranch(rendered.pieces[k])
          /\ ~NearClampedRule(rendered.pieces[k].test)
    /\ \E k \in DrawnPieces :
          /\ rendered.pieces[k].test.level >= 1
          /\ UnclampedRule(rendered.pieces[k].test)

\* the pieces a renderCubic or renderCubicFaded invocation decided about,
\* the invocation being the one entered for the subdivided piece k
Children(k) == { j \in (k + 1)..Len(rendered.pieces) : rendered.pieces[j].parent = k }

\* the interval of the invocation entered for the subdivided piece k, as
\* times of the curve in multiples of 1 / Unit, and the radius it was given:
\* the piece itself, and for a segment of the top level the arguments of the
\* call in rendered.cubic
Invocation(k) ==
    LET piece == rendered.pieces[k]
        nth == Cardinality({ j \in 1..k : /\ rendered.pieces[j].test.level = 0
                                          /\ rendered.pieces[j].path = "subdivided" })
        top == rendered.cubic[nth]
    IN  IF piece.test.level = 0
        THEN [t0 |-> Unit * top.segment.t + (top.segment.dt * top.t0n * Unit) \div top.q,
              t1 |-> Unit * top.segment.t + (top.segment.dt * top.t1n * Unit) \div top.q,
              radius |-> top.radius]
        ELSE [t0 |-> piece.test.from.time, t1 |-> piece.test.to.time,
              radius |-> piece.test.radius]

\* the subdivided pieces of the call
SubdividedPieces ==
    { k \in 1..Len(rendered.pieces) : rendered.pieces[k].path = "subdivided" }

\* C26: every invocation of renderCubic or renderCubicFaded on [t0, t1]
\* evaluates exactly the 8 end points t0 + k (t1 - t0) / 8, k = 1..8, each
\* with one eighth of the radius the invocation was given, and so recurses
\* with that radius only.
C26_EightPiecesWithEighthRadius ==
    (PiecesRecorded /\ ~rendered.tooDeep) =>
        \A k \in SubdividedPieces :
            \E given \in {Invocation(k)}, children \in {Children(k)} :
                /\ Cardinality(children) = SubdivisionFactor
                /\ { rendered.pieces[j].test.step : j \in children } = 1..SubdivisionFactor
                /\ \A j \in children :
                      LET child == rendered.pieces[j].test
                      IN  /\ child.level = rendered.pieces[k].test.level + 1
                          /\ SubdivisionFactor * (child.to.time - given.t0)
                                = child.step * (given.t1 - given.t0)
                          /\ SubdivisionFactor * (child.from.time - given.t0)
                                = (child.step - 1) * (given.t1 - given.t0)
                          /\ SubdivisionFactor * child.radius = given.radius

\* an invocation of the top level on a clamped interval and one that was
\* entered by recursion, both with a radius that is not zero
C26_Witness ==
    /\ PiecesRecorded /\ ~rendered.tooDeep
    /\ \E k \in SubdividedPieces :
          /\ rendered.pieces[k].test.level = 0
          /\ Invocation(k).t0 > rendered.pieces[k].test.from.time
          /\ Invocation(k).radius > 0
    /\ \E k \in SubdividedPieces :
          rendered.pieces[k].test.level >= 1 /\ Invocation(k).radius > 0

\* a time-range render or renderFaded that got to its loop and ran through
RangePiecesRecorded ==
    /\ rendered.op \in {"renderTimeRange", "renderFaded"}
    /\ ~rendered.tooDeep
    /\ rendered.pieces # <<>>

\* the first and the last segment of the requested range: the first piece
\* of the call, and the segment whose end is not before endTime
BoundaryPieces ==
    { k \in 1..Len(rendered.pieces) :
        /\ rendered.pieces[k].test.level = 0
        /\ \/ k = 1
           \/ rendered.pieces[k].test.to.time >= Unit * rendered.args.endTime }

\* the pieces of the segment k of the top level: the segment itself and the
\* sub-segments decided about inside it
SegmentPieces(k) ==
    LET later == { m \in (k + 1)..Len(rendered.pieces) : rendered.pieces[m].test.level = 0 }
    IN  IF later = {} THEN k..Len(rendered.pieces)
        ELSE k..((CHOOSE m \in later : \A x \in later : m <= x) - 1)

\* the segment k put a vertex into the output
ContributesVertices(k) == \E j \in SegmentPieces(k) : rendered.pieces[j].vertices # <<>>

\* the segment k took neither the straight-line shortcut nor its far plane
\* cull
OnCubicPath(k) == rendered.pieces[k].path \in {"subdivided", "culled"}

StraightLinePieces ==
    { k \in 1..Len(rendered.pieces) :
        /\ rendered.pieces[k].test.level = 0
        /\ rendered.pieces[k].path \in {"drawn", "farCulled"} }

\* C28: on the straight-line path a segment is treated as culled if and
\* only if the z of its start point plus its bounding radius is less than
\* farZ; then an open strip is ended, restartCurve is set and no vertex of the
\* segment is emitted; otherwise the end point of the segment is emitted,
\* after begin() and the start point when restartCurve was true.
C28_FarPlaneCullOfStraightLine ==
    PiecesRecorded =>
        \A k \in StraightLinePieces :
            LET piece == rendered.pieces[k]
                beyond == piece.test.z + piece.test.radius < piece.test.farZ
            IN  /\ piece.test.z = piece.test.from.position[3]
                /\ beyond =>
                      /\ piece.path = "farCulled"
                      /\ piece.vertices = <<>>
                      /\ piece.restartAfter
                      /\ piece.calls = IF piece.restartBefore THEN <<>> ELSE <<"end">>
                /\ ~beyond =>
                      /\ piece.path = "drawn"
                      /\ piece.vertices = IF piece.restartBefore
                                           THEN <<piece.test.from, piece.test.to>>
                                           ELSE <<piece.test.to>>
                      /\ piece.calls = IF piece.restartBefore
                                        THEN <<"begin", "vertex", "vertex">>
                                        ELSE <<"vertex">>

\* a call drew a segment of some extent as a line, and culled a segment at
\* the far plane while a strip was open
C28_Witness ==
    /\ PiecesRecorded
    /\ \E k \in StraightLinePieces :
          /\ rendered.pieces[k].path = "farCulled"
          /\ ~rendered.pieces[k].restartBefore
    /\ \E k \in StraightLinePieces :
          /\ rendered.pieces[k].path = "drawn"
          /\ rendered.pieces[k].test.radius > 0

(***************************************************************************)
(* What the emitter sees of one render call.                               *)
(***************************************************************************)
\* The emitter calls keep to the protocol of strips, said call by call:
\* begin() is followed by two vertex() calls; vertex() comes after begin() or
\* vertex() and before vertex() or end(); end() comes after vertex(); any
\* other call comes with no strip open.  So every begin() has its end(), with
\* vertex() calls alone between them, two or more, and begin() and end()
\* alternate from the first begin() on.
StripProtocol(calls) ==
    \A i \in 1..Len(calls) :
        IF calls[i] = "begin"
        THEN /\ i + 2 <= Len(calls)
             /\ calls[i + 1] = "vertex" /\ calls[i + 2] = "vertex"
             /\ i > 1 => calls[i - 1] \notin {"begin", "vertex"}
        ELSE IF calls[i] = "vertex"
        THEN /\ i > 1 /\ calls[i - 1] \in {"begin", "vertex"}
             /\ i < Len(calls) /\ calls[i + 1] \in {"vertex", "end"}
        ELSE IF calls[i] = "end"
        THEN i > 1 /\ calls[i - 1] = "vertex"
        ELSE i > 1 => calls[i - 1] \notin {"begin", "vertex"}

\* the call ends with flush() and then finish(), and calls neither before
EndsWithFlushFinish(calls) ==
    /\ Len(calls) >= 2
    /\ calls[Len(calls) - 1] = "flush"
    /\ calls[Len(calls)] = "finish"
    /\ \A i \in 1..(Len(calls) - 2) : calls[i] \notin {"flush", "finish"}

\* write cursor 0, open-strip length 0, no recorded strips
EmitterEmpty(vb) ==
    /\ vb.currentPosition = 0
    /\ vb.currentStripLength = 0
    /\ vb.stripLengths = <<>>

\* C29: within one render call the emitter sees begin() and end() strictly
\* alternating, starting with begin(), with at least two vertex() calls
\* between a begin() and its end(); the call finishes with end() if a strip
\* is open, then flush(), then finish(); and after the call the emitter is
\* empty.  (A call that returns before createVertexBuffer() calls nothing of
\* the emitter and leaves it as it was, empty.)
C29_StripProtocol ==
    RenderDone =>
        /\ EmitterEmpty(vbuf)
        /\ rendered.calls # <<>> =>
              /\ StripProtocol(rendered.calls)
              /\ EndsWithFlushFinish(rendered.calls)

\* a call with two strips, the last of them open when the loop ended
C29_Witness ==
    /\ RenderDone
    /\ Len(rendered.calls) >= 3
    /\ rendered.calls[Len(rendered.calls) - 2] = "end"
    /\ rendered.pieces # <<>>
    /\ rendered.pieces[Len(rendered.pieces)].path = "drawn"
    /\ Cardinality({ i \in 1..Len(rendered.calls) : rendered.calls[i] = "begin" }) >= 2

(***************************************************************************)
(* flush().                                                                *)
(***************************************************************************)
\* the strips flush() finds recorded: those end() recorded and, of a buffer
\* that is not empty, the open strip of two points or more, which flush()
\* ends first
RecordedAtFlush(vb) ==
    IF vb.currentPosition > 0 /\ vb.currentStripLength > 1
    THEN Append(vb.stripLengths, vb.currentStripLength)
    ELSE vb.stripLengths

\* the sum of length + 1 over the strips before the k-th
RECURSIVE SlotsBefore(_, _)
SlotsBefore(lengths, k) ==
    IF k <= 1 THEN 0 ELSE SlotsBefore(lengths, k - 1) + lengths[k - 1] + 1

\* the step is a call of flush()
FlushStep == strip'.op = "flush"

\* what the step submitted
Submitted == SubSeq(glDraws', Len(glDraws) + 1, Len(glDraws'))

\* the step submitted the strips recorded, each once, in their order, the
\* k-th with its length and the start index SlotsBefore (both doubled for
\* lines drawn as triangles), and left the buffer empty
FlushSubmitsRecorded ==
    LET recorded == RecordedAtFlush(vbuf)
        factor == IF vbuf.lineAsTriangles THEN 2 ELSE 1
    IN  /\ SubSeq(glDraws', 1, Len(glDraws)) = glDraws
        /\ Len(Submitted) = Len(recorded)
        /\ \A k \in 1..Len(recorded) :
              /\ Submitted[k].count = factor * recorded[k]
              /\ Submitted[k].first = factor * SlotsBefore(recorded, k)
              /\ Submitted[k].mode = IF vbuf.lineAsTriangles
                                      THEN "GL_TRIANGLE_STRIP" ELSE "GL_LINE_STRIP"
        /\ EmitterEmpty(vbuf')

\* C30: flush() submits every recorded strip exactly once, in recording
\* order, each with its recorded length and with a start index equal to the
\* sum of length + 1 over the strips recorded before it; afterwards the
\* buffer is empty (write cursor 0, no recorded strips, open-strip length 0),
\* so that a second flush() submits nothing.
C30_FlushSubmitsEachStripOnce == [][FlushStep => FlushSubmitsRecorded]_vars

\* flush() submitted three strips, the last of them open until then; the
\* third started at index 6
C30_Witness ==
    /\ strip.op = "flush"
    /\ strip.pre.currentStripLength = 2
    /\ Len(strip.pre.stripLengths) = 2
    /\ Len(glDraws) = 3
    /\ glDraws[3].first \in {6, 12}
    /\ EmitterEmpty(vbuf)

\* a second flush() ran on the emptied buffer and the draws are those of the
\* first
SecondFlushSubmitsNothing ==
    /\ strip.op = "flush"
    /\ strip.pre.currentPosition = 0
    /\ Len(glDraws) >= 2

(***************************************************************************)
(* The emitter's cursors (C31, C36)                                        *)
(***************************************************************************)
\* C31: for any sequence of setup/begin/vertex/end/flush calls the write
\* cursor is below capacity after every call, and no call (the end() inside
\* an automatic flush included) writes a slot outside 0..capacity, the slots
\* of the (capacity + 1)-slot array.
C31_CursorBelowCapacity ==
    /\ vbuf.currentPosition >= 0 /\ vbuf.currentPosition < capacity
    /\ \A slot \in WrittenSlots(strip.op, strip.pre) : slot >= 0 /\ slot <= capacity

\* a vertex() call filled the buffer with a strip open, so that the end() of
\* the automatic flush wrote the extra point in slot capacity
C31_Witness ==
    /\ strip.op = "vertex"
    /\ capacity \in WrittenSlots(strip.op, strip.pre)
    /\ vbuf.currentPosition = 1
    /\ glDraws # <<>>

(***************************************************************************)
(* Pruning the store (C32)                                                 *)
(***************************************************************************)
\* the samples of a store that a cutoff keeps, in their order
KeptFrom(samples, t) == SelectSeq(samples, LAMBDA s : ~Less(s.t, t))
KeptUpTo(samples, t) == SelectSeq(samples, LAMBDA s : ~Greater(s.t, t))

\* C32: removeSamplesBefore(t) removes exactly the samples with time < t and
\* removeSamplesAfter(t) exactly those with time > t; the samples kept, one
\* with time equal to t included, keep their content and order; and on every
\* store the two operations give the same store in either order.
C32_RemovesExactlyAndCommutes ==
    /\ call.op = "removeSamplesBefore" => m_samples = KeptFrom(call.pre, call.t)
    /\ call.op = "removeSamplesAfter" => m_samples = KeptUpTo(call.pre, call.t)
    /\ \A t1, t2 \in TimeValues :
          removeSamplesAfter(removeSamplesBefore(m_samples, t1), t2)
              = removeSamplesBefore(removeSamplesAfter(m_samples, t2), t1)

\* removeSamplesAfter(t) took the last of three samples and kept the one with
\* time equal to t, and on the store it left each operation removes a sample
C32_Witness ==
    /\ call.op = "removeSamplesAfter"
    /\ Len(call.pre) = 3
    /\ Len(m_samples) = 2
    /\ m_samples[2].t = call.t
    /\ \E t1, t2 \in Times :
          /\ Len(removeSamplesBefore(m_samples, t1)) = 1
          /\ Len(removeSamplesAfter(m_samples, t2)) = 1
          /\ removeSamplesAfter(removeSamplesBefore(m_samples, t1), t2) = <<>>

\* the write cursor of a buffer as its strips account for it: each recorded
\* strip takes its length and the extra point, the open strip its length
CursorOfStrips(c) == SlotsBefore(c.stripLengths, Len(c.stripLengths) + 1) + c.currentStripLength

\* C36: after every call of the emitter the write cursor equals the sum over
\* the recorded strips of (length + 1) plus the open-strip length; so the
\* open-strip length never exceeds the cursor, and the roll-back of end()
\* (cursor minus open-strip length) never goes below zero.
C36_CursorIsSumOfStrips ==
    /\ vbuf.currentPosition = CursorOfStrips(vbuf)
    /\ vbuf.currentStripLength >= 0
    /\ vbuf.currentStripLength <= vbuf.currentPosition
    /\ strip.op = "end" =>
          /\ strip.pre.currentStripLength <= strip.pre.currentPosition
          /\ strip.pre.currentStripLength <= 1 =>
                vbuf.currentPosition = strip.pre.currentPosition - strip.pre.currentStripLength

\* end() rolled back the one point that an automatic flush had re-seeded,
\* leaving the cursor at 0
C36_Witness ==
    /\ strip.op = "end"
    /\ strip.pre.currentStripLength = 1
    /\ strip.pre.currentPosition = 1
    /\ vbuf.currentPosition = 0
    /\ glDraws # <<>>

\* a recorded strip of two points and its extra point account for the cursor
C36_RecordedStripCounted ==
    /\ vbuf.stripLengths = <<2>>
    /\ vbuf.currentPosition = 3
    /\ vbuf.currentStripLength = 0

(***************************************************************************)
(* Adding a sample again (C35)                                             *)
(***************************************************************************)
\* the time of the sample is that of the first or of the last sample stored
AtAnEnd(samples, sample) ==
    /\ samples # <<>>
    /\ sample.t = samples[1].t \/ sample.t = samples[Len(samples)].t

\* C35: addSample with a time equal to that of the current first or last
\* sample (the only sample of a one-sample store included) leaves the store
\* unchanged; so addSample twice with the same sample leaves the store that
\* addSample once leaves.
C35_AddSampleIdempotent ==
    /\ (Added /\ AtAnEnd(call.pre, call.sample)) => m_samples = call.pre
    /\ \A sample \in Samples :
          addSample(addSample(m_samples, sample), sample) = addSample(m_samples, sample)

\* the only sample of the store was added again and discarded
C35_Witness ==
    /\ Added
    /\ Len(call.pre) = 1
    /\ call.sample = call.pre[1]
    /\ m_samples = call.pre

\* a sample with the time of the first of three samples was discarded
C35_FirstTimeDiscarded ==
    /\ Added
    /\ Len(call.pre) = 3
    /\ call.sample.t = call.pre[1].t
    /\ call.sample # call.pre[1]
    /\ m_samples = call.pre

(***************************************************************************)
(* The start sample of a time-range render (C34)                           *)
(***************************************************************************)
\* a time-range render or renderFaded went past its early return
SearchDone == RangeRenderDone /\ rendered.calls # <<>>

\* the sample the call read first after the search: m_samples[startSample]
StartSampleRead == rendered.reads[1]

\* C34: in the time-range render and renderFaded with first sample time <=
\* startTime < last sample time, the start sample s of the linear search has
\* time[s] <= startTime <= time[s + 1]; with startTime before the first
\* sample, s is 0.
C34_StartSampleContainsStartTime ==
    SearchDone =>
        LET s == StartSampleRead
            startTime == rendered.args.startTime
        IN  /\ (m_samples[1].t <= startTime /\ startTime < m_samples[Len(m_samples)].t) =>
                  /\ s + 2 <= Len(m_samples)
                  /\ m_samples[s + 1].t <= startTime
                  /\ startTime <= m_samples[s + 2].t
            /\ startTime < m_samples[1].t => s = 0

\* startTime is the time of the second of three samples: the search stops at
\* it and steps back to the first
C34_Witness ==
    /\ SearchDone
    /\ rendered.op = "renderTimeRange"
    /\ Len(m_samples) = 3
    /\ rendered.args.startTime = m_samples[2].t
    /\ StartSampleRead = 0

\* renderFaded with startTime inside the second segment starts at the second
\* sample
C34_StartInsideSecondSegment ==
    /\ SearchDone
    /\ rendered.op = "renderFaded"
    /\ Len(m_samples) = 3
    /\ rendered.args.startTime > m_samples[2].t
    /\ StartSampleRead = 1

\* startTime before the first sample
C34_StartBeforeFirst ==
    /\ SearchDone
    /\ rendered.args.startTime < m_samples[1].t
    /\ Len(m_samples) = 3
    /\ StartSampleRead = 0

(***************************************************************************)
(* The restart flag and the open strip (C37)                               *)
(***************************************************************************)
\* The points of a render call between two emitter operations: point k is
\* where the k-th operation is called, after the operation before it and
\* the assignment to restartCurve that goes with that one.
PointsBetween == 2..Len(rendered.points)

\* restartCurve is true exactly when no strip is open at point k
FlagMatchesStrip(k) ==
    rendered.points[k].restartCurve <=> rendered.points[k].open = 0

\* the closing calls of a render call: the flush() after the loop, and the
\* end() before it
ClosingPoint(k) ==
    /\ k = Len(rendered.points)
    /\ rendered.points[k].op = "flush"

\* C37 as stated: at every point of a render call between two emitter
\* operations restartCurve is true exactly when the open-strip length is 0
C37_Original ==
    RenderDone => \A k \in PointsBetween : FlagMatchesStrip(k)

\* C37: at every point of a render call between two emitter operations, up
\* to the end() that closes the last strip after the loop over the segments,
\* restartCurve is true exactly when the emitter's open-strip length is 0 and
\* false exactly when it is >= 1, also right after an automatic flush has
\* re-seeded the buffer.
C37_FlagMatchesOpenStrip ==
    RenderDone =>
        \A k \in PointsBetween : ~ClosingPoint(k) => FlagMatchesStrip(k)

\* a render call whose automatic flush re-seeded the buffer in the middle of
\* a strip (the next vertex() found the flag false and one point in the open
\* strip of an emptied buffer), and that closed its last strip with end()
C37_Witness ==
    /\ RenderDone
    /\ \E k \in PointsBetween :
          /\ rendered.points[k].op = "vertex"
          /\ rendered.points[k - 1].op = "vertex"
          /\ ~rendered.points[k].restartCurve
          /\ rendered.points[k].open = 1
          /\ rendered.points[k - 1].open >= 2
    /\ \E k \in PointsBetween :
          /\ rendered.points[k].op = "end"
          /\ ~rendered.points[k].restartCurve
          /\ rendered.points[k].open >= 2
    /\ \E k \in PointsBetween :
          /\ rendered.points[k].op = "begin"
          /\ rendered.points[k - 1].op = "end"
          /\ rendered.points[k].restartCurve
          /\ rendered.points[k].open = 0

(***************************************************************************)
(* The strips of a render call (C33)                                       *)
(***************************************************************************)
\* a vertex as the emitter submits it: the position as floats, x, y and z
SubmittedPosition(v) == SubSeq(castFloat4(v.position), 1, 3)

\* the pieces drawn into the strip that was open
ContinuingPieces == { k \in DrawnPieces : ~rendered.pieces[k].restartBefore }

\* the evaluation points a drawn piece joins are in non-decreasing time
InTimeOrder ==
    \A k \in DrawnPieces :
        rendered.pieces[k].test.from.time <= rendered.pieces[k].test.to.time

\* a piece drawn into an open strip starts at the evaluation point the strip
\* had reached: the vertex emitted last
NoPointSkipped ==
    \A k \in ContinuingPieces :
        /\ rendered.pieces[k].emittedBefore >= 1
        /\ rendered.emitted[rendered.pieces[k].emittedBefore] = rendered.pieces[k].test.from

\* Every strip starts at a begin() that finds no strip open.  The calls of
\* end() are one for every piece culled while a strip was open and, when the
\* loop over the segments left a strip open (the flag is then still false
\* at the closing flush()), the one that closes the call.
EndCalls == { k \in 1..Len(rendered.points) : rendered.points[k].op = "end" }
ClosingEnds ==
    IF rendered.points # <<>> /\ ~rendered.points[Len(rendered.points)].restartCurve
    THEN 1 ELSE 0
ClosedByCullOrEnd ==
    /\ \A k \in 1..Len(rendered.points) :
          rendered.points[k].op = "begin" => rendered.points[k].open = 0
    /\ Cardinality(EndCalls)
          = Cardinality({ k \in CulledPieces : ~rendered.pieces[k].restartBefore })
                + ClosingEnds

\* what the emitter call at point k submitted: the strips recorded in the
\* buffer and the open strip, if the call ended it, each a run of the
\* vertices emitted last
StripsAt(k) ==
    LET point == rendered.points[k]
        open == IF point.op = "vertex" THEN point.open + 1 ELSE point.open
    IN  IF open >= 2 THEN Append(point.recorded, open) ELSE point.recorded

LastVertexAt(k) ==
    LET point == rendered.points[k]
    IN  IF point.op = "vertex" /\ point.open >= 1 THEN point.emitted + 1
        ELSE point.emitted

\* the call at point k submits what the buffer holds: flush(), the vertex()
\* that fills the buffer, and the end() that fills it with the extra point
SubmitsAt(k) ==
    LET point == rendered.points[k]
        cursor == SlotsBefore(point.recorded, Len(point.recorded) + 1) + point.open
    IN  \/ point.op = "flush"
        \/ point.op = "vertex" /\ cursor + 1 = capacity
        \/ point.op = "end" /\ point.open >= 2 /\ cursor + 1 = capacity

SubmittedRuns ==
    \A k \in 1..Len(rendered.points) :
        \E lengths \in { IF SubmitsAt(k) THEN StripsAt(k) ELSE <<>> } :
            /\ rendered.points[k].issued = Len(lengths)
            /\ \A j \in 1..Len(lengths) :
                  LET after == (SlotsBefore(lengths, Len(lengths) + 1) - Len(lengths))
                                   - (SlotsBefore(lengths, j) - (j - 1))
                      first == LastVertexAt(k) - after + 1
                  IN  StripPositions(rendered.draws[rendered.points[k].draws + j])
                          = [i \in 1..lengths[j] |->
                                SubmittedPosition(rendered.emitted[first + i - 1])]

\* C33: every strip submitted by a render call is a contiguous run of the
\* trajectory: its consecutive vertices are consecutive evaluation points of
\* the curve, in non-decreasing time and with no evaluation point skipped
\* between them, and a strip is closed only by a cull, by an automatic flush
\* or by the end of the render call.
C33_StripsAreContiguousRuns ==
    PiecesRecorded =>
        /\ InTimeOrder
        /\ NoPointSkipped
        /\ ClosedByCullOrEnd
        /\ SubmittedRuns

\* the same for the calls whose time range is not reversed
OrderedRange ==
    rendered.op \in {"renderTimeRange", "renderFaded"} =>
        rendered.args.startTime <= rendered.args.endTime

ContiguousRunsOfOrderedRange ==
    (PiecesRecorded /\ OrderedRange) =>
        /\ InTimeOrder
        /\ NoPointSkipped
        /\ ClosedByCullOrEnd
        /\ SubmittedRuns

\* apart from the time order the statement holds for every call
ContiguousRunsInAnyOrder ==
    PiecesRecorded => NoPointSkipped /\ ClosedByCullOrEnd /\ SubmittedRuns

(***************************************************************************)
(* renderFaded against the time-range render (C38)                         *)
(***************************************************************************)
\* the operations of a strip among the emitter calls of a render call
StripOperations(calls) ==
    SelectSeq(calls, LAMBDA op : op \in {"begin", "vertex", "end", "flush"})

\* the positions of the vertices handed to vertex(), in order
EmittedPositions(emitted) == [i \in 1..Len(emitted) |-> emitted[i].position]

\* a draw call without the alpha of its colours
WithoutAlpha(draw) ==
    [mode |-> draw.mode, first |-> draw.first, count |-> draw.count,
     vertices |-> [j \in 1..Len(draw.vertices) |->
                      [position |-> draw.vertices[j].position,
                       scale |-> draw.vertices[j].scale,
                       rgb |-> SubSeq(draw.vertices[j].color, 1, 3)]]]

\* a renderFaded call that ran
FadedDone == rendered.op = "renderFaded" /\ ~rendered.crashed

\* the time-range render called on the same emitter and store with the
\* arguments of the renderFaded call that ran, in a build with the given
\* overload of abs
SameCallUnfaded(overload) ==
    renderTimeRange(overload, rendered.before,
                    [rendered.args EXCEPT !.entry = "renderTimeRange"], m_samples)

\* the renderFaded call that ran made the calls and submitted the draws of
\* the render unfaded, up to the alpha of the colours
SameButAlpha(unfaded) ==
    /\ StripOperations(rendered.calls) = StripOperations(unfaded.calls)
    /\ EmittedPositions(rendered.emitted) = EmittedPositions(unfaded.emitted)
    /\ Len(rendered.draws) = Len(unfaded.draws)
    /\ \A k \in 1..Len(rendered.draws) :
          WithoutAlpha(rendered.draws[k]) = WithoutAlpha(unfaded.draws[k])

\* C38: for the same store, transform, frustum, threshold, startTime and
\* endTime, renderFaded makes the same sequence of begin/vertex/end/flush
\* calls with the same vertex positions as the time-range render, and what
\* the two submit differs only in the alpha of the vertex colours.
C38_FadedRendersAsTimeRange ==
    FadedDone =>
        \A overload \in AbsOverloads :
            \E unfaded \in { SameCallUnfaded(overload) } : SameButAlpha(unfaded)

\* where the abs of the time-range render is that of doubles, as the
\* std::abs of renderFaded is, the two make the same calls
FadedRendersAsTimeRangeOfStdAbs ==
    FadedDone => \E unfaded \in { SameCallUnfaded("double") } : SameButAlpha(unfaded)

\* a renderFaded call drew a middle segment as a line where the time-range
\* render with abs(int) subdivides it: the distance of its start has a
\* fraction, and without the fraction the threshold test holds
FadedLineWhereTimeRangeSubdivides ==
    /\ FadedDone
    /\ \E k \in DrawnPieces :
          \E test \in { rendered.pieces[k].test } :
              /\ test.level = 0
              /\ ~test.forced
              /\ test.radius < test.threshold * (Abs(test.z) - test.radius)
              /\ test.radius >= test.threshold * (absOfInt(test.z) - test.radius)
    /\ \E unfaded \in { SameCallUnfaded("int") } :
          Len(unfaded.emitted) > Len(rendered.emitted)

(***************************************************************************)
(* The emitter shared by all plots (C39), checked under SpecShared         *)
(***************************************************************************)
\* a render call returned
CallDone == rendered.op \notin {"none", "pending"} /\ ~rendered.crashed

\* what the call that ran submits when it is made on the emitter vb, in a
\* build with the given overload of abs: the draw calls with their modes,
\* ranges and vertices (positions, colours, scales)
SubmissionsFrom(vb, overload) ==
    IF rendered.args.entry = "render"
    THEN render(vb, rendered.args, m_samples).draws
    ELSE IF rendered.args.entry = "renderTimeRange"
    THEN renderTimeRange(overload, vb, rendered.args, m_samples).draws
    ELSE renderFaded(vb, rendered.args, m_samples).draws

\* the emitter as earlier calls left it differs from a new one in the data
\* it holds
UsedEmitter == rendered.before.data # HighPrec_VertexBuffer.data

\* C39: whatever render calls were made before on whatever stores, a render
\* call submits what the same call (same arguments, same store) submits on
\* an emitter never used: the submissions depend on the call's arguments
\* and its store only.
C39_SubmissionsIndependentOfEarlierCalls ==
    CallDone =>
        \E submissions \in
              { { [used |-> SubmissionsFrom(rendered.before, overload),
                   new |-> SubmissionsFrom(HighPrec_VertexBuffer, overload)] :
                    overload \in BuildsOfCall } } :
            /\ \A build \in submissions : build.used = build.new
            /\ \E build \in submissions : rendered.draws = build.used

\* a call that submitted strips ran on an emitter that an earlier call had
\* left with the other layout, another colour and vertices in its buffer
C39_Witness ==
    /\ CallDone
    /\ UsedEmitter
    /\ rendered.draws # <<>>
    /\ rendered.before.lineAsTriangles # rendered.args.lineAsTriangles
    /\ rendered.before.color # rendered.args.color
    /\ rendered.before.color # <<>>

\* a renderFaded call, which never calls setColor, on an emitter whose colour
\* an earlier call had set to another colour than the call's
FadedAfterOtherColour ==
    /\ CallDone
    /\ rendered.op = "renderFaded"
    /\ rendered.draws # <<>>
    /\ rendered.before.color \notin { <<>>, rendered.args.color }

\* the buffer filled in the course of the call: it submitted draw calls
\* before its closing flush
FilledBufferOnUsedEmitter ==
    /\ CallDone
    /\ UsedEmitter
    /\ \E k \in 1..Len(rendered.points) :
          rendered.points[k].op # "flush" /\ rendered.points[k].issued > 0

=============================================================================
